---- MODULE Spec2Model ----
(***************************************************************************)
(* A model of the DAP server of service/dap/server.go.                     *)
(*                                                                         *)
(* Two flows of control exist: the run goroutine started by Run(), which   *)
(* accepts one client connection and then reads and handles one request    *)
(* after the other, and the main goroutine, which calls Stop().  The model *)
(* keeps one step per blocking call or shared access of the run goroutine  *)
(* (accept, recording the connection, read, handling one request, leaving  *)
(* the read loop) and one step per statement of Stop().  A handler is      *)
(* written as a function from the state it touches (the record w) to the   *)
(* state it leaves.  Where Stop() can run beside it, the handler is taken  *)
(* one message, engine call, build call or diagnostic at a time, and       *)
(* requests are read through the buffer of s.reader; where only the run    *)
(* goroutine runs, a handler is one step.                                  *)
(***************************************************************************)
EXTENDS Integers, Sequences, FiniteSets, TLC

\* Requests the client sends over the connection in one session.
MaxSeq == 3
\* The same, for the client that only inspects the stack and the variables.
MaxInspectSeq == 5
\* Stack frames the engine returns for one stackTrace request.
MaxFrames == 2

\* The requests the buffer of s.reader takes from one read of the connection.
MaxBuffered == 2

VARIABLES
    w,          \* the Server struct, the engine and what the handlers did
    listener,   \* the listener: "open" or "closed"
    stopChan,   \* s.stopChan: "open" or "closed"
    netConn,    \* the client connection: "none", "open" or "closed" (by Stop)
    runPc,      \* where the run goroutine is
    runErr,     \* the error the run goroutine's accept or read returned
    cur,        \* the request being handled
    seq,        \* requests read so far
    stopPc,     \* where each call of Stop() is
    fault,      \* an unrecovered panic: the process has died
    hist,       \* what has happened in the session so far
    reader,     \* s.reader: the requests its buffer holds
    call,       \* the handler that is running: its steps so far, the answers it gets
    owner       \* each call of Stop(): the engine its test found, what it did

vars == <<w, listener, stopChan, netConn, runPc, runErr, cur, seq, stopPc, fault, hist,
          reader, call, owner>>

----------------------------------------------------------------------------
(* Error identifiers of the error responses.                               *)

UnableToSetBreakpoints == 2002
UnableToDisplayThreads == 2003
UnableToProduceStackTrace == 2004
UnableToListLocals == 2005
UnableToListArgs == 2006
UnableToListGlobals == 2007
UnableToLookupVariable == 2008
FailedToLaunch == 3000
NotYetImplemented == 7777
InternalError == 8888
UnsupportedCommand == 9999

----------------------------------------------------------------------------
(* What a handler does, in order: one entry per message sent, engine or    *)
(* build call made, handle allocated, diagnostic logged.                   *)

Ev(k, name, info, n, ok, id) ==
    [k |-> k, name |-> name, info |-> info, n |-> n, ok |-> ok, id |-> id, body |-> <<>>]

WithBody(e, body) == [e EXCEPT !.body = body]

\* A step of a handler: e is what it does.  When it is the step the handler
\* is to be followed up to (x.limit), the server as it stands is kept in
\* x.snap; the handler goes on.
Do(x, e) ==
    LET y == [x EXCEPT !.trace = Append(@, e)]
    IN  IF Len(y.trace) = x.limit /\ x.snap = <<>> THEN [y EXCEPT !.snap = <<y>>] ELSE y

\* s.send: the message is written to the connection.
send(x, msg) == Do(x, msg)

\* A panic of the handler: the rest of the handler does not run.
raise(x, text) == Do([x EXCEPT !.panic = text], Ev("panic", text, "", 0, FALSE, 0))

\* newResponse: a success response to the request.
newResponse(request) == Ev("response", request.command, "", request.seq, TRUE, 0)

\* newEvent
newEvent(event, reason, threadId, all) == Ev("event", event, reason, threadId, all, 0)

\* One entry of a response body.
Item(name, value, n) == [name |-> name, value |-> value, n |-> n]

\* sendErrorResponse without the command and the sequence number of the request.
sendErrorResponse_anonymous(x, request, id, summary, details) ==
    send(Do(x, Ev("log", "error", summary, 0, FALSE, 0)),
         WithBody(Ev("response", "", summary, 0, FALSE, id),
                  <<Item("format", details, 0)>>))

\* The format string of the error is "summary: details".
sendErrorResponse(x, request, id, summary, details) ==
    send(Do(x, Ev("log", "error", summary, 0, FALSE, 0)),
         WithBody(Ev("response", request.command, summary, request.seq, FALSE, id),
                  <<Item("format", details, 0)>>))

\* The response names no command: only the sequence number is taken.
sendInternalErrorResponse(x, rseq, details) ==
    send(Do(x, Ev("log", "error", "Internal Error", 0, FALSE, 0)),
         WithBody(Ev("response", "", "Internal Error", rseq, FALSE, InternalError),
                  <<Item("format", details, 0)>>))

sendUnsupportedErrorResponse(x, request) ==
    sendErrorResponse(x, request, UnsupportedCommand, "Unsupported command", "cannot process request")

\* The refusal of an unimplemented request with the identifier of the unsupported ones.
sendNotYetImplementedErrorResponse_unsupported(x, request) ==
    sendErrorResponse(x, request, UnsupportedCommand, "Unsupported command", "cannot process request")

sendNotYetImplementedErrorResponse(x, request) ==
    sendErrorResponse(x, request, NotYetImplemented, "Not yet implemented", "cannot process request")

----------------------------------------------------------------------------
(* The handle registries.                                                  *)

startHandle == 1

newHandlesMap == <<>>

\* create: the next handle, with the payload stored under it.
nextHandle(hs) == startHandle + Len(hs)

create(hs, v) == Append(hs, v)

\* get: found exactly for the handles issued since the last reset.
found(hs, h) == h - startHandle + 1 \in 1..Len(hs)

get(hs, h) == hs[h - startHandle + 1]

reset(hs) == <<>>

----------------------------------------------------------------------------
(* The Server struct and the engine.                                       *)

defaultArgs == [stopOnEntry |-> FALSE, stackTraceDepth |-> 50, showGlobalVariables |-> FALSE]

\* NewServer, with the engine not yet created.
NewServer(attachPid) ==
    [ conn |-> FALSE,                \* s.conn # nil
      debugger |-> 0,                \* s.debugger: 0 is nil, else the engine
      binaryToRemove |-> "",
      processArgs |-> <<>>,          \* s.config.ProcessArgs
      stackFrameHandles |-> newHandlesMap,
      variableHandles |-> newHandlesMap,
      args |-> defaultArgs,
      disconnectChan |-> TRUE,       \* s.config.DisconnectChan # nil
      attachPid |-> attachPid,       \* s.config.Debugger.AttachPid
      dcCloses |-> 0,                \* close() calls on the disconnect channel
      detaches |-> <<>>,             \* Detach calls, per engine created
      bps |-> {},                    \* the engine's breakpoints
      trace |-> <<>>,
      panic |-> "",
      limit |-> 0,                   \* the step a handler is followed up to (0: to its return)
      snap |-> <<>> ]                \* the server at that step

\* debugger.Detach(kill) on engine e, called by a handler (Stop's call is
\* StopDetach); kill := s.config.Debugger.AttachPid == 0.
Detach(x, e, by) ==
    Do([x EXCEPT !.detaches[e] = @ + 1],
       Ev(by, "Detach", IF x.attachPid = 0 THEN "kill" ELSE "nokill", e, TRUE, 0))

\* signalDisconnect without the test that guards the close.
signalDisconnect_unguarded(x) ==
    LET a == Do([x EXCEPT !.dcCloses = @ + 1, !.disconnectChan = FALSE],
                Ev("signal", "close", "", 0, TRUE, 0))
    IN  IF a.binaryToRemove # ""
        THEN Do(a, Ev("build", "Remove", a.binaryToRemove, 0, TRUE, 0))
        ELSE a

signalDisconnect(x) ==
    LET a == IF x.disconnectChan
             THEN Do([x EXCEPT !.dcCloses = @ + 1, !.disconnectChan = FALSE],
                     Ev("signal", "close", "", 0, TRUE, 0))
             ELSE Do(x, Ev("signal", "closed already", "", 0, TRUE, 0))
    IN  IF a.binaryToRemove # ""
        THEN Do(a, Ev("build", "Remove", a.binaryToRemove, 0, TRUE, 0))
        ELSE a

----------------------------------------------------------------------------
(* What the engine, the build service and the file system answer: the      *)
(* inputs of a handler besides its request.                                *)

NoOutcome ==
    [ cmd |-> "stop",      \* Command: "stop", "exitErr", "exitState", "err", "panic"
      state |-> "ok",      \* State(nowait): "ok" or "err"
      halt |-> "ok",       \* Command(Halt): "ok", "err" or "panic"
      detach |-> "ok",     \* Detach: "ok" or "err"
      abs |-> "ok",        \* filepath.Abs: "ok" or "err"
      build |-> "ok",      \* GoBuild / GoTestBuild: "ok" or "err"
      new |-> "ok",        \* debugger.New: "ok" or "err"
      gs |-> 0,            \* Goroutines: -2 process exited, -1 error, else how many
      frames |-> 0,        \* Stacktrace: -1 error, else how many frames
      clearFail |-> 0,     \* ClearBreakpoint: 0 none fails, k the k-th call fails
      nocode |-> {},       \* CreateBreakpoint: the lines the engine rejects
      scope |-> "ok",      \* the scopes query that fails: "args", "locals", "pkg", "globals"
      currPkg |-> "main",  \* CurrentPackage
      vars |-> <<>> ]      \* FunctionArguments / LocalVariables / PackageVariables

----------------------------------------------------------------------------
(* doCommand                                                               *)

\* doCommand resetting the two registries before it looks at the answer.
doCommand_resetFirst(x, command, o) ==
    IF x.debugger = 0 THEN x
    ELSE
    LET a == Do(x, Ev("engine", "Command", command, x.debugger, o.cmd \in {"stop", "exitState"}, 0))
        b == [a EXCEPT !.stackFrameHandles = reset(@), !.variableHandles = reset(@)]
        reason == IF command \in {"next", "step", "stepOut"} THEN "step" ELSE "breakpoint"
        c == Do(Do(b, Ev("log", "error", "runtime error", 0, FALSE, 0)),
                Ev("engine", "State", "nowait", b.debugger, o.state = "ok", 0))
    IN  CASE o.cmd = "panic" -> raise(a, "engine fault")
          [] o.cmd \in {"exitErr", "exitState"} ->
                send(b, newEvent("terminated", "", 0, FALSE))
          [] o.cmd = "stop" ->
                send(b, newEvent("stopped", reason, 1, TRUE))
          [] o.cmd = "err" ->
                send(send(c, newEvent("stopped", "runtime error", IF o.state = "ok" THEN 1 ELSE 0, TRUE)),
                     newEvent("output", "stderr", 0, FALSE))

\* doCommand giving up when the state query after an error fails.
doCommand_stateNeeded(x, command, o) ==
    IF x.debugger = 0 THEN x
    ELSE
    LET a == Do(x, Ev("engine", "Command", command, x.debugger, o.cmd \in {"stop", "exitState"}, 0))
        b == [a EXCEPT !.stackFrameHandles = reset(@), !.variableHandles = reset(@)]
        reason == IF command \in {"next", "step", "stepOut"} THEN "step" ELSE "breakpoint"
        c == Do(Do(b, Ev("log", "error", "runtime error", 0, FALSE, 0)),
                Ev("engine", "State", "nowait", b.debugger, o.state = "ok", 0))
    IN  CASE o.cmd = "panic" -> raise(a, "engine fault")
          [] o.cmd \in {"exitErr", "exitState"} ->
                send(a, newEvent("terminated", "", 0, FALSE))
          [] o.cmd = "stop" ->
                send(b, newEvent("stopped", reason, 1, TRUE))
          [] o.cmd = "err" /\ o.state # "ok" -> c
          [] o.cmd = "err" /\ o.state = "ok" ->
                send(send(c, newEvent("stopped", "runtime error", 1, TRUE)),
                     newEvent("output", "stderr", 0, FALSE))

\* doCommand without the reset of the two registries.
doCommand_noreset(x, command, o) ==
    IF x.debugger = 0 THEN x
    ELSE
    LET a == Do(x, Ev("engine", "Command", command, x.debugger, o.cmd \in {"stop", "exitState"}, 0))
        reason == IF command \in {"next", "step", "stepOut"} THEN "step" ELSE "breakpoint"
        c == Do(Do(a, Ev("log", "error", "runtime error", 0, FALSE, 0)),
                Ev("engine", "State", "nowait", a.debugger, o.state = "ok", 0))
    IN  CASE o.cmd = "panic" -> raise(a, "engine fault")
          [] o.cmd \in {"exitErr", "exitState"} ->
                send(a, newEvent("terminated", "", 0, FALSE))
          [] o.cmd = "stop" ->
                send(a, newEvent("stopped", reason, 1, TRUE))
          [] o.cmd = "err" ->
                send(send(c, newEvent("stopped", "runtime error", IF o.state = "ok" THEN 1 ELSE 0, TRUE)),
                     newEvent("output", "stderr", 0, FALSE))

\* doCommand calling the engine without the test that there is one.
doCommand_nilDeref(x, command, o) ==
    IF x.debugger = 0 THEN raise(x, "nil pointer dereference")
    ELSE
    LET a == Do(x, Ev("engine", "Command", command, x.debugger, o.cmd \in {"stop", "exitState"}, 0))
        b == [a EXCEPT !.stackFrameHandles = reset(@), !.variableHandles = reset(@)]
        reason == IF command \in {"next", "step", "stepOut"} THEN "step" ELSE "breakpoint"
        c == Do(Do(b, Ev("log", "error", "runtime error", 0, FALSE, 0)),
                Ev("engine", "State", "nowait", b.debugger, o.state = "ok", 0))
    IN  CASE o.cmd = "panic" -> raise(a, "engine fault")
          [] o.cmd \in {"exitErr", "exitState"} ->
                send(a, newEvent("terminated", "", 0, FALSE))
          [] o.cmd = "stop" ->
                send(b, newEvent("stopped", reason, 1, TRUE))
          [] o.cmd = "err" ->
                send(send(c, newEvent("stopped", "runtime error", IF o.state = "ok" THEN 1 ELSE 0, TRUE)),
                     newEvent("output", "stderr", 0, FALSE))

doCommand(x, command, o) ==
    IF x.debugger = 0 THEN x
    ELSE
    LET a == Do(x, Ev("engine", "Command", command, x.debugger, o.cmd \in {"stop", "exitState"}, 0))
        b == [a EXCEPT !.stackFrameHandles = reset(@), !.variableHandles = reset(@)]
        reason == IF command \in {"next", "step", "stepOut"} THEN "step" ELSE "breakpoint"
        c == Do(Do(b, Ev("log", "error", "runtime error", 0, FALSE, 0)),
                Ev("engine", "State", "nowait", b.debugger, o.state = "ok", 0))
    IN  CASE o.cmd = "panic" -> raise(a, "engine fault")
          [] o.cmd \in {"exitErr", "exitState"} ->
                send(a, newEvent("terminated", "", 0, FALSE))
          [] o.cmd = "stop" ->
                send(b, newEvent("stopped", reason, 1, TRUE))
          [] o.cmd = "err" ->
                send(send(c, newEvent("stopped", "runtime error", IF o.state = "ok" THEN 1 ELSE 0, TRUE)),
                     newEvent("output", "stderr", 0, FALSE))

----------------------------------------------------------------------------
(* The handlers.                                                           *)

\* The capabilities the initialize response sets.
Capabilities ==
    << Item("supportsConfigurationDoneRequest", "true", 0),
       Item("supportsConditionalBreakpoints", "true", 0),
       Item("supportsSetVariable", "false", 0),
       Item("supportsTerminateRequest", "false", 0),
       Item("supportsRestartRequest", "false", 0),
       Item("supportsFunctionBreakpoints", "false", 0),
       Item("supportsStepBack", "false", 0),
       Item("supportsSetExpression", "false", 0),
       Item("supportsLoadedSourcesRequest", "false", 0),
       Item("supportsReadMemoryRequest", "false", 0),
       Item("supportsDisassembleRequest", "false", 0),
       Item("supportsCancelRequest", "false", 0) >>

onInitializeRequest(x, request) == send(x, WithBody(newResponse(request), Capabilities))

\* disconnect giving up when the halt fails.
onDisconnectRequest_haltStops(x, request, o) ==
    LET a == send(x, newResponse(request))
        h == Do(a, Ev("engine", "Command", "halt", a.debugger, o.halt = "ok", 0))
        d == Detach(h, h.debugger, "engine")
        dl == IF o.detach = "err" THEN Do(d, Ev("log", "error", "detach", 0, FALSE, 0)) ELSE d
    IN  IF a.debugger = 0 THEN signalDisconnect(a)
        ELSE IF o.halt = "panic" THEN raise(h, "engine fault")
        ELSE IF o.halt = "err" THEN Do(h, Ev("log", "error", "halt", 0, FALSE, 0))
        ELSE signalDisconnect(dl)

onDisconnectRequest(x, request, o) ==
    LET a == send(x, newResponse(request))
        h == Do(a, Ev("engine", "Command", "halt", a.debugger, o.halt = "ok", 0))
        hl == IF o.halt = "err" THEN Do(h, Ev("log", "error", "halt", 0, FALSE, 0)) ELSE h
        d == Detach(hl, hl.debugger, "engine")
        dl == IF o.detach = "err" THEN Do(d, Ev("log", "error", "detach", 0, FALSE, 0)) ELSE d
    IN  IF a.debugger = 0 THEN signalDisconnect(a)
        ELSE IF o.halt = "panic" THEN raise(h, "engine fault")
        ELSE signalDisconnect(dl)

onSetExceptionBreakpointsRequest(x, request) == send(x, newResponse(request))

\* configurationDone resuming the program whatever stop-on-entry says.
onConfigurationDoneRequest_resuming(x, request, o) ==
    LET a == IF x.args.stopOnEntry
             THEN send(x, newEvent("stopped", "entry", 1, TRUE))
             ELSE x
    IN  doCommand(send(a, newResponse(request)), "continue", o)

onConfigurationDoneRequest(x, request, o) ==
    LET a == IF x.args.stopOnEntry
             THEN send(x, newEvent("stopped", "entry", 1, TRUE))
             ELSE x
        b == send(a, newResponse(request))
    IN  IF ~x.args.stopOnEntry THEN doCommand(b, "continue", o) ELSE b

onContinueRequest(x, request, o) == doCommand(send(x, newResponse(request)), "continue", o)

onNextRequest(x, request, o) == doCommand(send(x, newResponse(request)), "next", o)

\* stepIn issuing the command of next.
onStepInRequest_next(x, request, o) == doCommand(send(x, newResponse(request)), "next", o)

onStepInRequest(x, request, o) == doCommand(send(x, newResponse(request)), "step", o)

onStepOutRequest(x, request, o) == doCommand(send(x, newResponse(request)), "stepOut", o)

\* threads answering an empty list when the engine has no goroutines.
onThreadsRequest_empty(x, request, o) ==
    LET a == Do(x, Ev("engine", "Goroutines", "", x.debugger, o.gs >= 0, 0))
    IN  CASE x.debugger = 0 ->
                sendErrorResponse(x, request, UnableToDisplayThreads, "Unable to display threads", "debugger is nil")
          [] x.debugger # 0 /\ o.gs = -2 -> send(a, newResponse(request))
          [] x.debugger # 0 /\ o.gs = -1 ->
                sendErrorResponse(a, request, UnableToDisplayThreads, "Unable to display threads", "engine error")
          [] x.debugger # 0 /\ o.gs >= 0 -> send(a, WithBody(newResponse(request), [i \in 1..o.gs |-> Item("goroutine", "", i)]))

onThreadsRequest(x, request, o) ==
    LET a == Do(x, Ev("engine", "Goroutines", "", x.debugger, o.gs >= 0, 0))
    IN  CASE x.debugger = 0 ->
                sendErrorResponse(x, request, UnableToDisplayThreads, "Unable to display threads", "debugger is nil")
          [] x.debugger # 0 /\ o.gs = -2 -> send(a, newResponse(request))
          [] x.debugger # 0 /\ o.gs = -1 ->
                sendErrorResponse(a, request, UnableToDisplayThreads, "Unable to display threads", "engine error")
          [] x.debugger # 0 /\ o.gs = 0 -> send(a, WithBody(newResponse(request), <<Item("Dummy", "", 1)>>))
          [] x.debugger # 0 /\ o.gs > 0 -> send(a, WithBody(newResponse(request), [i \in 1..o.gs |-> Item("goroutine", "", i)]))

----------------------------------------------------------------------------
(* launch                                                                  *)

\* A value of the untyped arguments map of a request.
Absent == [t |-> "absent", s |-> "", n |-> 0, b |-> FALSE, a |-> <<>>]
Str(s) == [Absent EXCEPT !.t = "string", !.s = s]
Num(n) == [Absent EXCEPT !.t = "number", !.n = n]
Bool(b) == [Absent EXCEPT !.t = "bool", !.b = b]
\* An array: each element is "string" or "number".
Arr(a) == [Absent EXCEPT !.t = "array", !.a = a]

debugBinary == "./__debug_bin"

\* filepath.Abs
Abs(path) == IF path = debugBinary THEN "/cwd/__debug_bin" ELSE "/cwd/out"

\* debugger.New: the engine is created, with its own special breakpoints.
New(x, o) ==
    LET e == Ev("engine", "New", "", Len(x.detaches) + 1, o.new = "ok", 0)
    IN  IF o.new = "ok"
        THEN [Do([x EXCEPT !.detaches = Append(@, 0),
                           !.bps = {[id |-> -1, file |-> "panic.go", line |-> 1]}], e)
                 EXCEPT !.debugger = Len(x.detaches) + 1]
        ELSE [Do(x, e) EXCEPT !.debugger = 0]

\* Lines 465-477: the optional arguments overwrite the defaults.
launchArgs(x, A) ==
    LET a1 == IF A.stopOnEntry.t = "bool" THEN [x EXCEPT !.args.stopOnEntry = A.stopOnEntry.b] ELSE x
        a2 == IF A.stackTraceDepth.t = "number" /\ A.stackTraceDepth.n > 0
              THEN [a1 EXCEPT !.args.stackTraceDepth = A.stackTraceDepth.n] ELSE a1
    IN  IF A.showGlobalVariables.t = "bool"
        THEN [a2 EXCEPT !.args.showGlobalVariables = A.showGlobalVariables.b] ELSE a2

\* The same with the response sent before the initialized event.
launchTail_responseFirst(x, request, program, o) ==
    LET A == request.arguments
        a3 == launchArgs(x, A)
        a4 == [a3 EXCEPT !.processArgs = <<program>> \o [i \in 1..Len(A.args.a) |-> "arg"]]
        a5 == New(a4, o)
    IN  IF A.args.t \notin {"absent", "array"}
        THEN sendErrorResponse(a3, request, FailedToLaunch, "Failed to launch",
                 "'args' attribute in debug configuration is not an array.")
        ELSE IF A.args.t = "array" /\ \E i \in 1..Len(A.args.a) : A.args.a[i] # "string"
        THEN sendErrorResponse(a3, request, FailedToLaunch, "Failed to launch",
                 "value in 'args' attribute in debug configuration is not a string.")
        ELSE IF a5.debugger = 0
        THEN sendErrorResponse(a5, request, FailedToLaunch, "Failed to launch", "engine error")
        ELSE send(send(a5, newResponse(request)), newEvent("initialized", "", 0, FALSE))

\* Lines 465-516: from the optional arguments on.
launchTail(x, request, program, o) ==
    LET A == request.arguments
        a3 == launchArgs(x, A)
        a4 == [a3 EXCEPT !.processArgs = <<program>> \o [i \in 1..Len(A.args.a) |-> "arg"]]
        a5 == New(a4, o)
    IN  IF A.args.t \notin {"absent", "array"}
        THEN sendErrorResponse(a3, request, FailedToLaunch, "Failed to launch",
                 "'args' attribute in debug configuration is not an array.")
        ELSE IF A.args.t = "array" /\ \E i \in 1..Len(A.args.a) : A.args.a[i] # "string"
        THEN sendErrorResponse(a3, request, FailedToLaunch, "Failed to launch",
                 "value in 'args' attribute in debug configuration is not a string.")
        ELSE IF a5.debugger = 0
        THEN sendErrorResponse(a5, request, FailedToLaunch, "Failed to launch", "engine error")
        ELSE send(send(a5, newEvent("initialized", "", 0, FALSE)), newResponse(request))

\* The plain build in both modes.
launchBuild_plain(x, request, mode, o) ==
    LET A == request.arguments
        output == IF A.output.t = "string" /\ A.output.s # "" THEN A.output.s ELSE debugBinary
        debugname == Abs(output)
        b1 == Do(x, Ev("build", "GoBuild", debugname, 0, o.build = "ok", 0))
    IN  IF o.abs = "err"
        THEN sendInternalErrorResponse(x, request.seq, "abs error")
        ELSE IF A.buildFlags.t \notin {"absent", "string"}
        THEN sendErrorResponse(x, request, FailedToLaunch, "Failed to launch",
                 "'buildFlags' attribute in debug configuration is not a string.")
        ELSE IF o.build = "err"
        THEN sendErrorResponse(b1, request, FailedToLaunch, "Failed to launch", "Build error")
        ELSE launchTail([b1 EXCEPT !.binaryToRemove = debugname], request, debugname, o)

\* Lines 418-455: the build of the modes "debug" and "test".
launchBuild(x, request, mode, o) ==
    LET A == request.arguments
        output == IF A.output.t = "string" /\ A.output.s # "" THEN A.output.s ELSE debugBinary
        debugname == Abs(output)
        b1 == Do(x, Ev("build", IF mode = "debug" THEN "GoBuild" ELSE "GoTestBuild",
                       debugname, 0, o.build = "ok", 0))
    IN  IF o.abs = "err"
        THEN sendInternalErrorResponse(x, request.seq, "abs error")
        ELSE IF A.buildFlags.t \notin {"absent", "string"}
        THEN sendErrorResponse(x, request, FailedToLaunch, "Failed to launch",
                 "'buildFlags' attribute in debug configuration is not a string.")
        ELSE IF o.build = "err"
        THEN sendErrorResponse(b1, request, FailedToLaunch, "Failed to launch", "Build error")
        ELSE launchTail([b1 EXCEPT !.binaryToRemove = debugname], request, debugname, o)

\* onLaunchRequest without the test of the program argument.
onLaunchRequest_unchecked(x, request, o) ==
    LET A == request.arguments
        mode == IF A.mode.t = "absent" \/ (A.mode.t = "string" /\ A.mode.s = "")
                THEN "debug"
                ELSE IF A.mode.t = "string" THEN A.mode.s ELSE "(not a string)"
    IN  IF mode \in {"debug", "test"}
        THEN launchBuild(x, request, mode, o)
        ELSE IF mode # "exec"
        THEN sendErrorResponse(x, request, FailedToLaunch, "Failed to launch",
                 "Unsupported 'mode' value in debug configuration.")
        ELSE launchTail(x, request, A.program.s, o)

onLaunchRequest(x, request, o) ==
    LET A == request.arguments
        mode == IF A.mode.t = "absent" \/ (A.mode.t = "string" /\ A.mode.s = "")
                THEN "debug"
                ELSE IF A.mode.t = "string" THEN A.mode.s ELSE "(not a string)"
    IN  IF A.program.t # "string" \/ A.program.s = ""
        THEN sendErrorResponse(x, request, FailedToLaunch, "Failed to launch",
                 "The program attribute is missing in debug configuration.")
        ELSE IF mode \in {"debug", "test"}
        THEN launchBuild(x, request, mode, o)
        ELSE IF mode # "exec"
        THEN sendErrorResponse(x, request, FailedToLaunch, "Failed to launch",
                 "Unsupported 'mode' value in debug configuration.")
        ELSE launchTail(x, request, A.program.s, o)

----------------------------------------------------------------------------
(* setBreakpoints                                                          *)

\* The engine's breakpoints, in the order Breakpoints() lists them.
RECURSIVE byId(_)
byId(bps) ==
    IF bps = {} THEN <<>>
    ELSE LET m == CHOOSE b \in bps : \A c \in bps : b.id <= c.id
         IN  <<m>> \o byId(bps \ {m})

\* The id the engine gives the next breakpoint.
newId(bps) == CHOOSE i \in 1..(Cardinality(bps) + 1) : \A b \in bps : b.id # i

\* The clear loop clearing nothing.
clearExisting_none(bps, existing, path, calls, o) == [bps |-> bps, err |-> FALSE]

\* The clear loop clearing the breakpoints of every file.
RECURSIVE clearExisting_anyFile(_, _, _, _, _)
clearExisting_anyFile(bps, existing, path, calls, o) ==
    IF existing = <<>> THEN [bps |-> bps, err |-> FALSE]
    ELSE LET bp == Head(existing)
         IN  IF bp.id < 0
             THEN clearExisting_anyFile(bps, Tail(existing), path, calls, o)
             ELSE IF o.clearFail = calls + 1
             THEN [bps |-> bps, err |-> TRUE]
             ELSE clearExisting_anyFile(bps \ {bp}, Tail(existing), path, calls + 1, o)

\* Lines 557-574: ClearBreakpoint for each breakpoint of the file, until one fails.
RECURSIVE clearExisting(_, _, _, _, _)
clearExisting(bps, existing, path, calls, o) ==
    IF existing = <<>> THEN [bps |-> bps, err |-> FALSE]
    ELSE LET bp == Head(existing)
         IN  IF bp.id < 0 \/ bp.file # path
             THEN clearExisting(bps, Tail(existing), path, calls, o)
             ELSE IF o.clearFail = calls + 1
             THEN [bps |-> bps, err |-> TRUE]
             ELSE clearExisting(bps \ {bp}, Tail(existing), path, calls + 1, o)

\* Lines 579-589: CreateBreakpoint for each requested line; the engine rejects
\* a line without code and a line that has a breakpoint already.
RECURSIVE createWanted(_, _, _, _, _)
createWanted(bps, path, lines, o, body) ==
    IF lines = <<>> THEN [bps |-> bps, body |-> body]
    ELSE LET line == Head(lines)
             err == line \in o.nocode \/ \E b \in bps : b.file = path /\ b.line = line
         IN  IF err
             THEN createWanted(bps, path, Tail(lines), o, Append(body, Item("unverified", "error", line)))
             ELSE createWanted(bps \cup {[id |-> newId(bps), file |-> path, line |-> line]},
                               path, Tail(lines), o, Append(body, Item("verified", "", line)))

onSetBreakpointsRequest(x, request, o) ==
    LET path == request.arguments.path
        a == Do(x, Ev("engine", "Breakpoints", "", x.debugger, TRUE, 0))
        cleared == clearExisting(a.bps, byId(a.bps), path, 0, o)
        created == createWanted(cleared.bps, path, request.arguments.lines, o, <<>>)
    IN  IF path = ""
        THEN sendErrorResponse(x, request, UnableToSetBreakpoints,
                 "Unable to set or clear breakpoints", "empty file path")
        ELSE IF x.debugger = 0
        THEN raise(x, "nil pointer dereference")
        ELSE IF cleared.err
        THEN sendErrorResponse([a EXCEPT !.bps = cleared.bps], request, UnableToSetBreakpoints,
                 "Unable to set or clear breakpoints", "engine error")
        ELSE send([a EXCEPT !.bps = created.bps], WithBody(newResponse(request), created.body))

----------------------------------------------------------------------------
(* stackTrace and scopes                                                   *)

min(a, b) == IF a < b THEN a ELSE b

stackFrame(goroutineID, frameIndex) == [goroutineID |-> goroutineID, frameIndex |-> frameIndex]

onStackTraceRequest(x, request, o) ==
    LET A == request.arguments
        a == Do(x, Ev("engine", "Stacktrace", "", x.debugger, o.frames >= 0, 0))
        n == min(o.frames, a.args.stackTraceDepth)
        first == nextHandle(a.stackFrameHandles)
        b == [a EXCEPT !.stackFrameHandles =
                 @ \o [i \in 1..n |-> stackFrame(A.threadId, i - 1)]]
        ids == [i \in 1..n |-> Item("frame", "", first + i - 1)]
        from == IF A.startFrame > 0 THEN min(A.startFrame, n) ELSE 0
        rest == SubSeq(ids, from + 1, n)
        upto == IF A.levels > 0 THEN min(A.levels, Len(rest)) ELSE Len(rest)
    IN  IF x.debugger = 0
        THEN raise(x, "nil pointer dereference")
        ELSE IF o.frames < 0
        THEN sendErrorResponse(a, request, UnableToProduceStackTrace,
                 "Unable to produce stack trace", "engine error")
        ELSE send(b, WithBody(newResponse(request), SubSeq(rest, 1, upto)))

\* A value the engine has loaded: proc.Variable.
Variable(name, kind, children) ==
    [ name |-> name, kind |-> kind, children |-> children,
      unreadable |-> FALSE,      \* v.Unreadable # nil
      typed |-> TRUE,            \* v.DwarfType # nil
      addr |-> 1, base |-> 1, len |-> Len(children), cap |-> Len(children),
      loaded |-> 0,              \* len(constant.StringVal(v.Value)), of a string
      valued |-> FALSE,          \* v.Value # nil
      value |-> "" ]             \* api.VariableValueAsString(v)

\* The value with the constant s as its Value.
withValue(v, s) == [v EXCEPT !.valued = TRUE, !.value = s]

\* A *proc.Variable held by the value registry.  A scope is a value of its
\* own (v); every other value is a child of a value reached from a scope:
\* root is the handle of that scope, path the indices that lead to the child.
Pointer(root, path, v) == [root |-> root, path |-> path, v |-> v]

\* proc.Variable{}: the zero value (also what a pointer at a child carries
\* as its own value).
NoVariable ==
    [Variable("", "invalid", <<>>) EXCEPT !.typed = FALSE, !.addr = 0, !.base = 0]

\* &proc.Variable{Name: name, Children: children}
scopeVariable(name, children) == [NoVariable EXCEPT !.name = name, !.children = children]

\* strings.TrimPrefix
TrimPrefix(s, prefix) ==
    IF Len(s) >= Len(prefix) /\ SubSeq(s, 1, Len(prefix)) = prefix
    THEN SubSeq(s, Len(prefix) + 1, Len(s))
    ELSE s

\* Lines 810-812: the globals without the package prefix of their names.
unqualified(globals, currPkg) ==
    [i \in 1..Len(globals) |->
        [globals[i] EXCEPT !.name = TrimPrefix(@, currPkg \o ".")]]

\* fmt.Sprintf("Globals (package %s)", currPkg)
globalsName(currPkg) == "Globals (package " \o currPkg \o ")"

\* &v.Children[i - 1], for the value p points at
childOf(p, i) == Pointer(p.root, Append(p.path, i), NoVariable)

RECURSIVE valueAt(_, _)
valueAt(v, path) ==
    IF path = <<>> THEN v ELSE valueAt(v.children[Head(path)], Tail(path))

RECURSIVE withValueAt(_, _, _)
withValueAt(v, path, new) ==
    IF path = <<>> THEN new
    ELSE [v EXCEPT !.children[Head(path)] = withValueAt(@, Tail(path), new)]

\* *p
deref(hs, p) == valueAt(get(hs, p.root).v, p.path)

\* *p = v: every pointer at the value or at a value that holds it sees v.
assign(x, p, v) ==
    [x EXCEPT !.variableHandles[p.root - startHandle + 1].v = withValueAt(@, p.path, v)]

\* variableHandles.create of a new scope.
newVar(x, v) ==
    [x EXCEPT !.variableHandles = create(@, Pointer(nextHandle(@), <<>>, v))]

onScopesRequest(x, request, o) ==
    LET frameId == request.arguments.frameId
        a == Do(x, Ev("engine", "FunctionArguments", "", x.debugger, o.scope # "args", 0))
        b == Do(a, Ev("engine", "LocalVariables", "", x.debugger, o.scope # "locals", 0))
        argRef == nextHandle(b.variableHandles)
        c == newVar(newVar(b, scopeVariable("Arguments", o.vars)),
                    scopeVariable("Locals", o.vars))
        two == <<Item("Arguments", "", argRef), Item("Locals", "", argRef + 1)>>
        d == Do(c, Ev("engine", "CurrentPackage", "", x.debugger, o.scope # "pkg", 0))
        e == Do(d, Ev("engine", "PackageVariables", "", x.debugger, o.scope # "globals", 0))
        f == newVar(e, scopeVariable(globalsName(o.currPkg), unqualified(o.vars, o.currPkg)))
    IN  IF ~found(x.stackFrameHandles, frameId)
        THEN sendErrorResponse(x, request, UnableToListLocals, "Unable to list locals", "unknown frame id")
        ELSE IF x.debugger = 0
        THEN raise(x, "nil pointer dereference")
        ELSE IF o.scope = "args"
        THEN sendErrorResponse(a, request, UnableToListArgs, "Unable to list args", "engine error")
        ELSE IF o.scope = "locals"
        THEN sendErrorResponse(b, request, UnableToListLocals, "Unable to list locals", "engine error")
        ELSE IF ~x.args.showGlobalVariables
        THEN send(c, WithBody(newResponse(request), two))
        ELSE IF o.scope = "pkg"
        THEN sendErrorResponse(d, request, UnableToListGlobals, "Unable to list globals", "engine error")
        ELSE IF o.scope = "globals"
        THEN sendErrorResponse(e, request, UnableToListGlobals, "Unable to list globals", "engine error")
        ELSE send(f, WithBody(newResponse(request), Append(two, Item(globalsName(o.currPkg), "", argRef + 2))))

----------------------------------------------------------------------------
(* variables                                                               *)

\* The result of convertVariable: the display string, the reference and the
\* server after the allocation and the writes through the pointer.
Converted(x, value, ref) == [x |-> x, value |-> value, ref |-> ref]

\* The handle of an equal value issued before is returned again.
withRef_shared(x, p, value) ==
    LET same == {h \in 1..Len(x.variableHandles) :
                    deref(x.variableHandles, x.variableHandles[h]) = deref(x.variableHandles, p)}
    IN  IF same # {}
        THEN Converted(x, value, startHandle - 1 + CHOOSE h \in same : TRUE)
        ELSE Converted([x EXCEPT !.variableHandles = create(@, p)], value,
                       nextHandle(x.variableHandles))

\* variablesReference = s.variableHandles.create(v)
withRef(x, p, value) ==
    Converted([x EXCEPT !.variableHandles = create(@, p)], value, nextHandle(x.variableHandles))

\* Lines 1014-1015: the two children of a complex number when constant.Real
\* is called: the first has its name.
newComplexChildren == << [NoVariable EXCEPT !.name = "real"], NoVariable >>

\* Lines 1014-1025: the two children a complex number is given.
complexChildren(v) ==
    LET part == IF v.kind = "complex64" THEN "float32" ELSE "float64"
    IN  << withValue([NoVariable EXCEPT !.name = "real", !.kind = part],
                     "real(" \o v.value \o ")"),
           withValue([NoVariable EXCEPT !.name = "imaginary", !.kind = part],
                     "imag(" \o v.value \o ")") >>

\* convertVariable giving a handle to every readable value.
convertVariable_eager(x, p) ==
    IF deref(x.variableHandles, p).unreadable THEN Converted(x, "unreadable <cause>", 0)
    ELSE withRef(x, p, "<T>")

\* The body of convertVariable, v being the value p points at.
convertValue(x, p, v) ==
    LET n == Len(v.children)
        str == IF v.valued /\ v.value # "" THEN v.value ELSE "<T>"
    IN  IF v.unreadable THEN Converted(x, "unreadable <cause>", 0)
        ELSE CASE v.kind = "unsafeptr" ->
                    Converted(x, IF n = 0 THEN "unsafe.Pointer(nil)" ELSE "unsafe.Pointer(0xADDR)", 0)
               [] v.kind = "ptr" ->
                    IF ~v.typed \/ n = 0 THEN Converted(x, "nil", 0)
                    ELSE IF v.children[1].addr = 0 THEN Converted(x, "nil <T>", 0)
                    ELSE IF v.children[1].kind = "invalid" THEN Converted(x, "void", 0)
                    ELSE withRef(x, p, "<T>(0xADDR)")
               [] v.kind = "array" ->
                    IF n > 0 THEN withRef(x, p, "<T>") ELSE Converted(x, "<T>", 0)
               [] v.kind = "slice" ->
                    IF v.base = 0 THEN Converted(x, "nil <T>", 0)
                    ELSE IF n > 0 THEN withRef(x, p, "<T> (length: L, cap: C)")
                    ELSE Converted(x, "<T> (length: L, cap: C)", 0)
               [] v.kind = "map" ->
                    IF v.base = 0 THEN Converted(x, "nil <T>", 0)
                    ELSE IF n > 0 THEN withRef(x, p, "<T> (length: L)")
                    ELSE Converted(x, "<T> (length: L)", 0)
               [] v.kind = "string" ->
                    \* constant.StringVal of a nil Value panics
                    IF ~v.valued THEN Converted(raise(x, "not a String"), "", 0)
                    ELSE Converted(x, IF v.len - v.loaded > 0 THEN "\"value...+N more\"" ELSE "\"value\"", 0)
               [] v.kind = "chan" ->
                    IF n = 0 THEN Converted(x, "nil <T>", 0) ELSE withRef(x, p, "<T>")
               [] v.kind = "interface" ->
                    IF v.addr = 0 THEN Converted(x, "nil", 0)
                    ELSE IF n = 0 \/ (v.children[1].kind = "invalid" /\ v.children[1].addr = 0)
                    THEN Converted(x, "nil <T>", 0)
                    ELSE withRef(x, p, "<T(Held)>")
               [] v.kind \in {"complex64", "complex128"} ->
                    \* v.Children is written through the pointer; constant.Real of a
                    \* nil Value panics at 1016; otherwise the default arm follows
                    IF ~v.valued
                    THEN Converted(raise(assign(x, p, [v EXCEPT !.children = newComplexChildren]),
                                         "not numeric"), "", 0)
                    ELSE withRef(assign(x, p, [v EXCEPT !.children = complexChildren(v)]), p, str)
               [] OTHER ->
                    IF n > 0 THEN withRef(x, p, str) ELSE Converted(x, str, 0)

\* convertVariable(v), for the pointer p given as v.
convertVariable(x, p) == convertValue(x, p, deref(x.variableHandles, p))

\* The names of the entries of a listing.
keyName(i) == <<"[key 0]", "[key 1]", "[key 2]">>[i + 1]
valName(i) == <<"[val 0]", "[val 1]", "[val 2]">>[i + 1]
indexName(i) == <<"[0]", "[1]", "[2]", "[3]", "[4]", "[5]">>[i + 1]

\* The children the value p points at has.
childrenAt(x, p) == Len(deref(x.variableHandles, p).children)

\* The listing of a map with two entries for every pair.
RECURSIVE mapChildren_separate(_, _)
mapChildren_separate(acc, i) ==
    LET k == convertVariable(acc.x, childOf(acc.p, i + 1))
        e == convertVariable(k.x, childOf(acc.p, i + 2))
    IN  IF acc.x.panic # "" \/ i >= childrenAt(acc.x, acc.p) THEN acc
        ELSE IF k.x.panic # "" THEN [acc EXCEPT !.x = k.x]
        ELSE IF i + 1 >= childrenAt(acc.x, acc.p)
        THEN [acc EXCEPT !.x = raise(k.x, "index out of range")]
        ELSE mapChildren_separate(
                 [acc EXCEPT !.x = e.x,
                             !.body = @ \o <<Item(keyName(i \div 2), k.value, k.ref),
                                             Item(valName(i \div 2), e.value, e.ref)>>],
                 i + 2)

\* One pair of a map: k and e are the conversions of the key and the value.
pairEntries(k, e, kvIndex) ==
    IF k.ref > 0 /\ e.ref > 0
    THEN <<Item(keyName(kvIndex), k.value, k.ref), Item(valName(kvIndex), e.value, e.ref)>>
    ELSE <<Item(IF k.ref # 0 THEN "key[i]" ELSE k.value, e.value,
                IF k.ref # 0 THEN k.ref ELSE e.ref)>>

\* Lines 850-884: the children of a map, two at a time.  acc holds the server,
\* the pointer at the map and the entries so far.  The key is converted before
\* the value is indexed.
RECURSIVE mapChildren(_, _)
mapChildren(acc, i) ==
    LET k == convertVariable(acc.x, childOf(acc.p, i + 1))
        e == convertVariable(k.x, childOf(acc.p, i + 2))
    IN  IF acc.x.panic # "" \/ i >= childrenAt(acc.x, acc.p) THEN acc
        ELSE IF k.x.panic # "" THEN [acc EXCEPT !.x = k.x]
        ELSE IF i + 1 >= childrenAt(acc.x, acc.p)
        THEN [acc EXCEPT !.x = raise(k.x, "index out of range")]
        ELSE mapChildren([acc EXCEPT !.x = e.x,
                                     !.body = @ \o pairEntries(k, e, i \div 2)],
                         i + 2)

\* Lines 885-906: the children of a slice or array by index, of any other
\* value by name.
RECURSIVE listChildren(_, _, _)
listChildren(acc, i, indexed) ==
    IF acc.x.panic # "" \/ i >= childrenAt(acc.x, acc.p) THEN acc
    ELSE LET c == convertVariable(acc.x, childOf(acc.p, i + 1))
         IN  listChildren([acc EXCEPT
                              !.x = c.x,
                              !.body = Append(@,
                                  Item(IF indexed THEN indexName(i)
                                       ELSE deref(acc.x.variableHandles, acc.p).children[i + 1].name,
                                       c.value, c.ref))],
                          i + 1, indexed)

onVariablesRequest(x, request) ==
    LET ref == request.arguments.variablesReference
        p == get(x.variableHandles, ref)
        v == deref(x.variableHandles, p)
        start == [x |-> x, p |-> p, body |-> <<>>]
        r == CASE v.kind = "map" -> mapChildren(start, 0)
               [] v.kind \in {"slice", "array"} -> listChildren(start, 0, TRUE)
               [] OTHER -> listChildren(start, 0, FALSE)
    IN  IF ~found(x.variableHandles, ref)
        THEN sendErrorResponse(x, request, UnableToLookupVariable,
                 "Unable to lookup variable", "unknown reference")
        ELSE IF r.x.panic # "" THEN r.x
        ELSE send(r.x, WithBody(newResponse(request), r.body))

----------------------------------------------------------------------------
(* handleRequest                                                           *)

NotYetImplementedCommands ==
    { "attach", "pause", "evaluate", "terminate", "restart", "setFunctionBreakpoints",
      "stepBack", "reverseContinue", "setVariable", "setExpression", "loadedSources",
      "readMemory", "disassemble", "cancel" }

UnsupportedCommands ==
    { "restartFrame", "goto", "source", "terminateThreads", "stepInTargets", "gotoTargets",
      "completions", "exceptionInfo", "dataBreakpointInfo", "setDataBreakpoints",
      "breakpointLocations", "modules" }

\* The switch on the kind of the message.
dispatch(x, request, o) ==
    LET c == request.command
    IN  CASE c = "initialize" -> onInitializeRequest(x, request)
          [] c = "launch" -> onLaunchRequest(x, request, o)
          [] c = "disconnect" -> onDisconnectRequest(x, request, o)
          [] c = "setBreakpoints" -> onSetBreakpointsRequest(x, request, o)
          [] c = "setExceptionBreakpoints" -> onSetExceptionBreakpointsRequest(x, request)
          [] c = "configurationDone" -> onConfigurationDoneRequest(x, request, o)
          [] c = "continue" -> onContinueRequest(x, request, o)
          [] c = "next" -> onNextRequest(x, request, o)
          [] c = "stepIn" -> onStepInRequest(x, request, o)
          [] c = "stepOut" -> onStepOutRequest(x, request, o)
          [] c = "threads" -> onThreadsRequest(x, request, o)
          [] c = "stackTrace" -> onStackTraceRequest(x, request, o)
          [] c = "scopes" -> onScopesRequest(x, request, o)
          [] c = "variables" -> onVariablesRequest(x, request)
          [] c \in NotYetImplementedCommands -> sendNotYetImplementedErrorResponse(x, request)
          [] c \in UnsupportedCommands -> sendUnsupportedErrorResponse(x, request)
          [] OTHER -> sendInternalErrorResponse(x, request.seq, "Unable to process")

\* Lines 213-219, the deferred function: a panic of the handler is recovered
\* and answered; r is the server as the handler left it.
recovered(r, request) ==
    IF r.panic # ""
    THEN sendInternalErrorResponse([r EXCEPT !.panic = ""], request.seq, r.panic)
    ELSE r

\* handleRequest without the deferred recover.
handleRequest_unrecovered(x, request, o) == dispatch(x, request, o)

handleRequest(x, request, o) == recovered(dispatch(x, request, o), request)

----------------------------------------------------------------------------
(* The requests a client sends and the answers of the engine.  A session   *)
(* is run against one kind of client (hist.client), each sending its own   *)
(* part of the protocol.                                                   *)

NoArguments ==
    [ program |-> Absent, mode |-> Absent, output |-> Absent, buildFlags |-> Absent,
      stopOnEntry |-> Absent, stackTraceDepth |-> Absent, showGlobalVariables |-> Absent,
      args |-> Absent,
      path |-> "", lines |-> <<>>,                     \* setBreakpoints
      threadId |-> 0, startFrame |-> 0, levels |-> 0,  \* stackTrace
      frameId |-> 0,                                   \* scopes
      variablesReference |-> 0 ]                       \* variables

Request(command, n, arguments) == [command |-> command, seq |-> n, arguments |-> arguments]

NoRequest == Request("", 0, NoArguments)

Exec == [NoArguments EXCEPT !.program = Str("prog"), !.mode = Str("exec")]

\* Values the engine returns for the arguments and locals of a frame.
IntVar == withValue(Variable("i", "int", <<>>), "1")
PtrVar == Variable("p", "ptr", << Variable("", "struct", <<IntVar>>) >>)
MapVar == Variable("m", "map", <<IntVar, IntVar, PtrVar, PtrVar>>)
ComplexVar == withValue(Variable("c", "complex128", <<>>), "(1 + 2i)")

\* Values of the other kinds and forms convertVariable tells apart.
StrVar == withValue([Variable("s", "string", <<>>) EXCEPT !.len = 5, !.loaded = 5], "hello")
LongStrVar == [StrVar EXCEPT !.len = 9]
UnreadableVar == [IntVar EXCEPT !.unreadable = TRUE]
UnreadablePtrVar == [PtrVar EXCEPT !.unreadable = TRUE]
RawNilVar == Variable("r", "unsafeptr", <<>>)
RawPtrVar == Variable("r", "unsafeptr", <<IntVar>>)
UntypedNilVar == [Variable("p", "ptr", <<>>) EXCEPT !.typed = FALSE]
ChildlessPtrVar == Variable("p", "ptr", <<>>)
NilPtrVar == Variable("p", "ptr", << [IntVar EXCEPT !.addr = 0] >>)
VoidPtrVar == Variable("p", "ptr", << Variable("", "invalid", <<>>) >>)
IntPtrVar == Variable("q", "ptr", <<IntVar>>)
NilSliceVar == [Variable("l", "slice", <<>>) EXCEPT !.base = 0]
EmptySliceVar == Variable("l", "slice", <<>>)
SliceVar == Variable("l", "slice", <<IntVar, PtrVar>>)
EmptyArrayVar == Variable("a", "array", <<>>)
ArrayVar == Variable("a", "array", <<IntVar>>)
NilMapVar == [Variable("m", "map", <<>>) EXCEPT !.base = 0]
EmptyMapVar == Variable("m", "map", <<>>)
NilChanVar == Variable("ch", "chan", <<>>)
ChanVar == Variable("ch", "chan", <<IntVar>>)
NilIfaceVar == [Variable("e", "interface", <<>>) EXCEPT !.addr = 0]
EmptyIfaceVar == Variable("e", "interface", <<>>)
AbsentIfaceVar == Variable("e", "interface", << [Variable("data", "invalid", <<>>) EXCEPT !.addr = 0] >>)
IfaceVar == Variable("e", "interface", <<IntVar>>)
EmptyStructVar == Variable("t", "struct", <<>>)
StructVar == Variable("t", "struct", <<IntVar, StrVar>>)
Complex64Var == withValue(Variable("c", "complex64", <<>>), "(1 + 2i)")

\* A value the engine names with its package, as it names the globals.
QualifiedVar == [IntVar EXCEPT !.name = "main.i"]

Values ==
    { IntVar, StrVar, LongStrVar, UnreadableVar, UnreadablePtrVar, RawNilVar, RawPtrVar,
      UntypedNilVar, ChildlessPtrVar, NilPtrVar, VoidPtrVar, PtrVar, IntPtrVar,
      NilSliceVar, EmptySliceVar, SliceVar, EmptyArrayVar, ArrayVar, NilMapVar, EmptyMapVar,
      NilChanVar, ChanVar, NilIfaceVar, EmptyIfaceVar, AbsentIfaceVar, IfaceVar,
      EmptyStructVar, StructVar, ComplexVar, Complex64Var }

\* Maps of one to three pairs: a key and a value are each a scalar or a value
\* with children.
Maps ==
    { Variable("m", "map", <<k, v>>) : k, v \in {IntVar, PtrVar} }
    \cup { Variable("m", "map", <<k, v, IntVar, PtrVar>>) : k, v \in {StrVar, SliceVar} }
    \cup { Variable("m", "map", <<PtrVar, IntVar, k, v>>) : k, v \in {IntVar, StructVar} }
    \cup { Variable("m", "map", <<IntVar, IntVar, StrVar, StrVar, IntVar, NilPtrVar>>),
           Variable("m", "map", <<PtrVar, PtrVar, PtrVar, PtrVar, PtrVar, PtrVar>>) }

\* What the engine returns for the arguments and locals of a frame, for the
\* client that lists values: one value, two pointers, or one map.  The
\* program of that client stays stopped: each query of a session returns the same.
ValueLists ==
    { <<v>> : v \in Values \cup Maps }
    \cup { <<PtrVar, PtrVar>>, <<PtrVar, IntPtrVar>>, <<VoidPtrVar, PtrVar>> }

Commands(client) ==
    CASE client = "lifecycle" -> {"launch", "disconnect", "continue"}
      [] client = "session" ->
            { "initialize", "launch", "disconnect", "setBreakpoints", "setExceptionBreakpoints",
              "configurationDone", "continue", "next", "stepIn", "stepOut", "threads",
              "stackTrace", "scopes", "variables", "attach", "restartFrame", "(response)" }
      [] client = "breakpoints" -> {"launch", "setBreakpoints"}
      [] client = "launch" -> {"launch"}
      [] client = "run" ->
            {"launch", "configurationDone", "continue", "next", "stepIn", "stepOut", "stackTrace"}
      [] client = "handles" ->
            { "launch", "stackTrace", "scopes",
              "configurationDone", "continue", "next", "stepIn", "stepOut" }
      [] client = "stubs" -> {"initialize"} \cup NotYetImplementedCommands \cup UnsupportedCommands
      [] client = "inspect" ->
            {"launch", "configurationDone", "continue", "next", "stackTrace", "scopes", "variables"}
      [] client = "values" -> {"launch", "stackTrace", "scopes", "variables"}

Paths == {"a.go", "panic.go"}
Lines == 1..2

\* The launch arguments of the client that tries the optional keys: each key
\* absent, well typed or mistyped.
LaunchArguments ==
    { [opt EXCEPT !.mode = m, !.buildFlags = f, !.args = a] :
        opt \in { Exec,
                  [Exec EXCEPT !.stopOnEntry = Bool(TRUE)],
                  [Exec EXCEPT !.stopOnEntry = Str("yes")],
                  [Exec EXCEPT !.stackTraceDepth = Str("1")],
                  [Exec EXCEPT !.showGlobalVariables = Num(1)] },
        m \in {Str("exec"), Str("debug")},
        f \in {Absent, Num(1)},
        a \in {Absent, Arr(<<"string">>), Num(1)} }
    \cup { [Exec EXCEPT !.program = Absent, !.stopOnEntry = Bool(TRUE)],
           [Exec EXCEPT !.mode = Str("remote"), !.showGlobalVariables = Bool(TRUE)],
           [Exec EXCEPT !.stackTraceDepth = Num(1), !.args = Arr(<<"string", "number">>)],
           [Exec EXCEPT !.mode = Str("test"), !.buildFlags = Str("-v"), !.output = Str("out")],
           [Exec EXCEPT !.mode = Str("test")],
           [Exec EXCEPT !.mode = Absent],
           [Exec EXCEPT !.mode = Str("")],
           [Exec EXCEPT !.mode = Num(1)] }

ArgumentsOf(client, command) ==
    CASE command = "launch" /\ client = "session" ->
            { Exec,
              [Exec EXCEPT !.stopOnEntry = Bool(TRUE), !.showGlobalVariables = Bool(TRUE)],
              [Exec EXCEPT !.program = Absent],
              [Exec EXCEPT !.program = Num(1), !.stopOnEntry = Bool(TRUE)],
              [Exec EXCEPT !.program = Str(""), !.mode = Str("debug"), !.stackTraceDepth = Num(1)],
              [Exec EXCEPT !.mode = Absent],
              [Exec EXCEPT !.mode = Str("remote")],
              [Exec EXCEPT !.args = Num(1), !.stackTraceDepth = Num(1)] }
      [] command = "launch" /\ client \in {"inspect", "run", "handles"} ->
            {Exec, [Exec EXCEPT !.stopOnEntry = Bool(TRUE)]}
      [] command = "launch" /\ client = "launch" -> LaunchArguments
      [] command \in {"continue", "next", "stepIn", "stepOut"} /\ client = "run" ->
            {[NoArguments EXCEPT !.threadId = t] : t \in {1, 2}}
      [] command = "launch" /\ client \in {"lifecycle", "breakpoints", "values"} -> {Exec}
      [] command = "setBreakpoints" /\ client = "session" ->
            {[NoArguments EXCEPT !.path = "a.go", !.lines = <<1>>]}
      [] command = "setBreakpoints" /\ client = "breakpoints" ->
            { [NoArguments EXCEPT !.path = p, !.lines = l] :
                p \in Paths \cup {""},
                l \in {<<>>} \cup {<<i>> : i \in Lines} \cup {<<i, j>> : i, j \in Lines} }
      [] command = "stackTrace" /\ client \in {"values", "handles"} ->
            {[NoArguments EXCEPT !.threadId = 1]}
      [] command = "scopes" /\ client \in {"values", "handles"} ->
            {[NoArguments EXCEPT !.frameId = startHandle]}
      [] command = "stackTrace" /\ client \notin {"values", "handles"} ->
            { [NoArguments EXCEPT !.threadId = 1, !.startFrame = sl[1], !.levels = sl[2]] :
                sl \in {<<0, 0>>, <<1, 1>>} }
      [] command = "scopes" /\ client \notin {"values", "handles"} ->
            {[NoArguments EXCEPT !.frameId = f] : f \in {startHandle, startHandle + MaxFrames}}
      [] command = "variables" ->
            {[NoArguments EXCEPT !.variablesReference = r] : r \in {startHandle, startHandle + 2}}
      [] OTHER -> {NoArguments}

Outcomes(client, command) ==
    CASE command = "launch" /\ client = "session" ->
            {[NoOutcome EXCEPT !.abs = a, !.build = b, !.new = n] :
                a \in {"ok", "err"}, b \in {"ok", "err"}, n \in {"ok", "err"}}
      [] command = "launch" /\ client = "launch" ->
            \* all succeed, or one fails: the launch ends at the first failure
            { NoOutcome, [NoOutcome EXCEPT !.abs = "err"], [NoOutcome EXCEPT !.build = "err"],
              [NoOutcome EXCEPT !.new = "err"] }
      [] command = "launch" /\ client \in {"lifecycle", "breakpoints", "run", "inspect", "handles"} ->
            {[NoOutcome EXCEPT !.new = n] : n \in {"ok", "err"}}
      [] command \in {"configurationDone", "continue", "next"} /\ client = "inspect" ->
            {[NoOutcome EXCEPT !.cmd = c] : c \in {"stop", "exitErr", "err"}}
      [] command = "scopes" /\ client = "inspect" ->
            {[NoOutcome EXCEPT !.scope = s, !.vars = v] :
                s \in {"ok", "locals"}, v \in {<<IntVar>>, <<PtrVar, MapVar>>}}
      [] command = "disconnect" ->
            {[NoOutcome EXCEPT !.halt = h, !.detach = d] :
                h \in {"ok", "err", "panic"}, d \in {"ok", "err"}}
      [] command \in {"configurationDone", "continue", "next", "stepIn", "stepOut"} /\ client # "inspect" ->
            {[NoOutcome EXCEPT !.cmd = c, !.state = s] :
                c \in {"stop", "exitErr", "exitState", "err", "panic"}, s \in {"ok", "err"}}
      [] command = "threads" -> {[NoOutcome EXCEPT !.gs = g] : g \in -2..2}
      [] command = "stackTrace" /\ client = "values" -> {[NoOutcome EXCEPT !.frames = 1]}
      [] command = "stackTrace" /\ client = "handles" ->
            {[NoOutcome EXCEPT !.frames = f] : f \in {-1, MaxFrames}}
      [] command = "scopes" /\ client = "handles" ->
            {[NoOutcome EXCEPT !.scope = s, !.vars = <<PtrVar, MapVar>>] : s \in {"ok", "locals"}}
      [] command = "stackTrace" /\ client \notin {"values", "handles"} ->
            {[NoOutcome EXCEPT !.frames = f] : f \in -1..MaxFrames}
      [] command = "scopes" /\ client = "values" ->
            {[NoOutcome EXCEPT !.vars = hist.frame]}
      [] command = "scopes" /\ client \notin {"inspect", "values", "handles"} ->
            {[NoOutcome EXCEPT !.scope = s, !.vars = v] :
                s \in {"ok", "args", "locals", "pkg", "globals"},
                v \in {<<IntVar>>, <<PtrVar, MapVar>>, <<ComplexVar>>, <<QualifiedVar>>}}
      [] command = "setBreakpoints" ->
            {[NoOutcome EXCEPT !.clearFail = k, !.nocode = n] :
                k \in 0..(IF client = "breakpoints" THEN 2 ELSE 1), n \in {{}, {2}}}
      [] OTHER -> {NoOutcome}

----------------------------------------------------------------------------
(* The run goroutine: Run and serveDAPCodec.                               *)

Alive == fault = ""

\* What a step of the run goroutine outside a handler starts from.
Fresh(x) == [x EXCEPT !.trace = <<>>]

\* No handler is running.
NoCall == [k |-> 0, o |-> NoOutcome, base |-> <<>>]

\* How many requests the client of a kind sends ahead of the answers: what
\* one read of the connection can bring into the buffer of s.reader.
Pipelined(client) == IF client = "lifecycle" THEN MaxBuffered ELSE 1

\* The requests a session of the client has at most.
MaxRequests(client) ==
    IF client \in {"inspect", "values", "handles"} THEN MaxInspectSeq ELSE MaxSeq

\* s.listener.Accept() returns the client's connection.
Accept ==
    /\ Alive /\ runPc = "accept" /\ listener = "open" /\ netConn = "none"
    /\ netConn' = "open"
    /\ runPc' = "accepted"
    /\ UNCHANGED <<w, listener, stopChan, runErr, cur, seq, stopPc, fault, hist, reader, call, owner>>

\* s.listener.Accept() fails: the listener was closed, or for another reason.
AcceptFail ==
    /\ Alive /\ runPc = "accept"
    /\ runErr' = IF listener = "closed" THEN "closed" ELSE "other"
    /\ runPc' = "acceptErr"
    /\ UNCHANGED <<w, listener, stopChan, netConn, cur, seq, stopPc, fault, hist, reader, call, owner>>

\* Lines 167-175: the error is logged unless Stop was requested.
AcceptFailed ==
    /\ Alive /\ runPc = "acceptErr"
    /\ LET a == IF stopChan = "closed" THEN Fresh(w)
                ELSE Do(Fresh(w), Ev("log", "error", "Error accepting client connection", 0, FALSE, 0))
           r == signalDisconnect(a)
       IN  /\ w' = r
           /\ fault' = IF r.dcCloses > 1 THEN "close of closed channel" ELSE fault
    /\ runPc' = "done"
    /\ UNCHANGED <<listener, stopChan, netConn, runErr, cur, seq, stopPc, hist, reader, call, owner>>

\* s.conn = conn
RecordConn ==
    /\ Alive /\ runPc = "accepted"
    /\ w' = [w EXCEPT !.conn = TRUE]
    /\ runPc' = "read"
    /\ UNCHANGED <<listener, stopChan, netConn, runErr, cur, seq, stopPc, fault, hist, reader, call, owner>>

\* dap.ReadProtocolMessage(s.reader) returns the next request of the client:
\* one the buffer of s.reader holds already, also when the connection has
\* been closed since, or else the first of those a read of the open
\* connection brings into the buffer.
Read ==
    /\ Alive /\ runPc = "read"
    /\ seq < MaxRequests(hist.client)
    /\ IF reader > 0
       THEN reader' = reader - 1
       ELSE /\ netConn = "open"
            /\ \E n \in 1..Pipelined(hist.client) :
                  /\ seq + n <= MaxRequests(hist.client)
                  /\ reader' = n - 1
    /\ \E c \in Commands(hist.client) : \E A \in ArgumentsOf(hist.client, c) :
          cur' = Request(c, seq + 1, A)
    /\ seq' = seq + 1
    /\ w' = Fresh(w)
    /\ call' = [NoCall EXCEPT !.base = Fresh(w)]
    /\ runPc' = "handle"
    /\ hist' = [hist EXCEPT !.after = hist.disconnected, !.pre = Fresh(w), !.o = NoOutcome,
                            !.late = (netConn = "closed")]
    /\ UNCHANGED <<listener, stopChan, netConn, runErr, stopPc, fault, owner>>

\* dap.ReadProtocolMessage fails, with no request left in the buffer: the
\* connection was closed by Stop, or the client closed it (EOF), or the
\* transport or the decoding of what was received failed.
ReadFail ==
    /\ Alive /\ runPc = "read" /\ reader = 0
    /\ runErr' \in (IF netConn = "closed" THEN {"closed", "other"} ELSE {"EOF", "other"})
    /\ runPc' = "readErr"
    /\ UNCHANGED <<w, listener, stopChan, netConn, cur, seq, stopPc, fault, hist, reader, call, owner>>

\* The read error logged whenever it is not EOF, whether Stop was requested or not.
ReadFailed_unconditional ==
    /\ Alive /\ runPc = "readErr"
    /\ LET a == IF runErr # "EOF"
                THEN Do(Fresh(w), Ev("log", "error", "DAP error", 0, FALSE, 0))
                ELSE Fresh(w)
           r == signalDisconnect(a)
       IN  /\ w' = r
           /\ fault' = IF r.dcCloses > 1 THEN "close of closed channel" ELSE fault
    /\ runPc' = "done"
    /\ UNCHANGED <<listener, stopChan, netConn, runErr, cur, seq, stopPc, hist, reader, call, owner>>

\* The read loop left without the disconnect signal when the client closed
\* the connection.
ReadFailed_silentEOF ==
    /\ Alive /\ runPc = "readErr"
    /\ LET stopRequested == stopChan = "closed"
           a == IF runErr # "EOF" /\ ~stopRequested
                THEN Do(Fresh(w), Ev("log", "error", "DAP error", 0, FALSE, 0))
                ELSE Fresh(w)
           r == IF runErr = "EOF" THEN a ELSE signalDisconnect(a)
       IN  /\ w' = r
           /\ fault' = IF r.dcCloses > 1 THEN "close of closed channel" ELSE fault
    /\ runPc' = "done"
    /\ UNCHANGED <<listener, stopChan, netConn, runErr, cur, seq, stopPc, hist, reader, call, owner>>

\* Lines 196-207 and the deferred signalDisconnect.
ReadFailed ==
    /\ Alive /\ runPc = "readErr"
    /\ LET stopRequested == stopChan = "closed"
           a == IF runErr # "EOF" /\ ~stopRequested
                THEN Do(Fresh(w), Ev("log", "error", "DAP error", 0, FALSE, 0))
                ELSE Fresh(w)
           r == signalDisconnect(a)
       IN  /\ w' = r
           /\ fault' = IF r.dcCloses > 1 THEN "close of closed channel" ELSE fault
    /\ runPc' = "done"
    /\ UNCHANGED <<listener, stopChan, netConn, runErr, cur, seq, stopPc, hist, reader, call, owner>>

\* A handler panicked while it ran.
Panicked(x) == \E i \in 1..Len(x.trace) : x.trace[i].k = "panic"

\* What the return of the handler leaves, r being the server as it left it.
Returned(r, o) ==
    /\ w' = r
    /\ fault' = IF r.panic # "" THEN r.panic
                ELSE IF r.dcCloses > 1 THEN "close of closed channel"
                ELSE fault
    /\ hist' = [hist EXCEPT
           !.disconnected = @ \/ (cur.command = "disconnect" /\ ~Panicked(r)),
           !.faulted = @ \/ Panicked(r),
           !.o = o]
    /\ call' = NoCall
    /\ runPc' = "read"

\* s.handleRequest(request), from the call to the return: no other goroutine
\* takes a step meanwhile.
Handle ==
    /\ Alive /\ runPc = "handle"
    /\ \E o \in Outcomes(hist.client, cur.command) :
          \E r \in {handleRequest(w, cur, o)} : Returned(r, o)
    /\ UNCHANGED <<listener, stopChan, netConn, runErr, cur, seq, stopPc, reader, owner>>

\* The server as another goroutine finds it when the handler has taken k of
\* its steps (see Do).
handleRequestUpTo(x, request, o, k) ==
    [handleRequest([x EXCEPT !.limit = k], request, o).snap[1] EXCEPT !.limit = 0]

\* s.handleRequest(request) one step at a time: the handler runs up to its
\* next message, engine call, build call or diagnostic, and what it has
\* assigned so far is what Stop finds.  The last step is the return.  The
\* engine and the build answer the same whatever Stop does meanwhile: the
\* answers are fixed with the first step.
HandleStep ==
    /\ Alive /\ runPc = "handle"
    /\ \E o \in (IF call.k = 0 THEN Outcomes(hist.client, cur.command) ELSE {call.o}) :
          \E r \in {handleRequest(call.base, cur, o)} :
              IF call.k + 1 < Len(r.trace)
              THEN /\ w' = handleRequestUpTo(call.base, cur, o, call.k + 1)
                   /\ call' = [call EXCEPT !.k = @ + 1, !.o = o]
                   /\ UNCHANGED <<runPc, fault, hist>>
              ELSE Returned(r, o)
    /\ UNCHANGED <<listener, stopChan, netConn, runErr, cur, seq, stopPc, reader, owner>>

----------------------------------------------------------------------------
(* The main goroutine: Stop.                                               *)

\* s.listener.Close()
StopListener(i) ==
    /\ Alive /\ stopPc[i] = "listener"
    /\ listener' = "closed"
    /\ stopPc' = [stopPc EXCEPT ![i] = "stopChan"]
    /\ UNCHANGED <<w, stopChan, netConn, runPc, runErr, cur, seq, fault, hist, reader, call, owner>>

\* close(s.stopChan): a panic when the channel is closed already, and Stop
\* goes no further.
StopChan(i) ==
    /\ Alive /\ stopPc[i] = "stopChan"
    /\ stopChan' = "closed"
    /\ fault' = IF stopChan = "closed" THEN "close of closed channel" ELSE fault
    /\ stopPc' = [stopPc EXCEPT ![i] = IF stopChan = "closed" THEN "panic" ELSE "conn"]
    /\ UNCHANGED <<w, listener, netConn, runPc, runErr, cur, seq, hist, reader, call, owner>>

\* if s.conn != nil { s.conn.Close() }
StopConn(i) ==
    /\ Alive /\ stopPc[i] = "conn"
    /\ netConn' = IF w.conn THEN "closed" ELSE netConn
    /\ stopPc' = [stopPc EXCEPT ![i] = "debugger"]
    /\ UNCHANGED <<w, listener, stopChan, runPc, runErr, cur, seq, fault, hist, reader, call, owner>>

\* Line 120: if s.debugger != nil
StopDebugger(i) ==
    /\ Alive /\ stopPc[i] = "debugger"
    /\ owner' = [owner EXCEPT ![i].seen = w.debugger]
    /\ stopPc' = [stopPc EXCEPT ![i] = IF w.debugger # 0 THEN "detach" ELSE "done"]
    /\ UNCHANGED <<w, listener, stopChan, netConn, runPc, runErr, cur, seq, fault, hist, reader, call>>

\* Lines 121-124: s.debugger.Detach(kill), and the error logged.  s.debugger
\* is read again, unsynchronised with the launch that assigns it: Detach is
\* called on the engine the test found or on what the field holds now; on
\* nil it panics and Stop does not return.
StopDetach(i) ==
    /\ Alive /\ stopPc[i] = "detach"
    /\ \E e \in {owner[i].seen, w.debugger} : \E d \in {"ok", "err"} :
          LET detach == Ev("owner", "Detach", IF w.attachPid = 0 THEN "kill" ELSE "nokill",
                           e, d = "ok", 0)
              logged == Ev("log", "error", "detach", 0, FALSE, 0)
          IN  IF e = 0
              THEN /\ fault' = "nil pointer dereference"
                   /\ stopPc' = [stopPc EXCEPT ![i] = "panic"]
                   /\ UNCHANGED owner
              ELSE /\ owner' = [owner EXCEPT ![i].trace =
                                   @ \o (IF d = "ok" THEN <<detach>> ELSE <<detach, logged>>)]
                   /\ stopPc' = [stopPc EXCEPT ![i] = "done"]
                   /\ UNCHANGED fault
    /\ UNCHANGED <<w, listener, stopChan, netConn, runPc, runErr, cur, seq, hist, reader, call>>

Stop(i) == StopListener(i) \/ StopChan(i) \/ StopConn(i) \/ StopDebugger(i) \/ StopDetach(i)

\* The calls of Detach on engine e: by the handlers and by Stop.
Detaches(e) ==
    w.detaches[e]
    + Cardinality({p \in {<<i, j>> : i \in DOMAIN owner, j \in 1..2} :
                      /\ p[2] <= Len(owner[p[1]].trace)
                      /\ owner[p[1]].trace[p[2]].name = "Detach"
                      /\ owner[p[1]].trace[p[2]].n = e})

----------------------------------------------------------------------------
(* The specifications.                                                     *)

\* The server after NewServer and Run, serving a client of the given kind,
\* with the given number of calls of Stop to come.
InitWith(client, stops) ==
    /\ \E pid \in {0, 1} : w = NewServer(pid)
    /\ listener = "open"
    /\ stopChan = "open"
    /\ netConn = "none"
    /\ runPc = "accept"
    /\ runErr = ""
    /\ cur = NoRequest
    /\ seq = 0
    /\ stopPc = [i \in 1..stops |-> "listener"]
    /\ fault = ""
    /\ reader = 0
    /\ call = NoCall
    /\ owner = [i \in 1..stops |-> [seen |-> 0, trace |-> <<>>]]
    /\ hist = [ client |-> client,
                disconnected |-> FALSE,   \* a disconnect request has been handled
                faulted |-> FALSE,        \* a handler has panicked
                after |-> FALSE,          \* disconnected, when cur was read
                late |-> FALSE,           \* cur was read after Stop had closed the connection
                pre |-> w,                \* the server when cur was read
                o |-> NoOutcome ]         \* what the engine answered while cur was handled

\* The run goroutine when no other goroutine runs: a handler is one step.
Serve == Accept \/ AcceptFail \/ AcceptFailed \/ RecordConn \/ Read \/ ReadFail \/ ReadFailed \/ Handle

\* The run goroutine beside Stop: a handler is taken step by step.
ServeBesideStop ==
    Accept \/ AcceptFail \/ AcceptFailed \/ RecordConn \/ Read \/ ReadFail \/ ReadFailed \/ HandleStep

\* A session with one call of Stop, at any moment.
Init == InitWith("lifecycle", 1)

Next == ServeBesideStop \/ \E i \in DOMAIN stopPc : Stop(i)

Spec == Init /\ [][Next]_vars

\* The same with Stop called twice.
InitReStop == InitWith("lifecycle", 2)

SpecReStop == InitReStop /\ [][Next]_vars

\* A session of a client that sends every kind of request; Stop is not called.
InitSession == InitWith("session", 0)

SpecSession == InitSession /\ [][Serve]_vars

\* A session of a client that launches and sets breakpoints.
InitBreakpoints == InitWith("breakpoints", 0)

SpecBreakpoints == InitBreakpoints /\ [][Serve]_vars

\* A session of a client that launches, runs and inspects the stopped program.
InitInspect == InitWith("inspect", 0)

SpecInspect == InitInspect /\ [][Serve]_vars

\* A session of a client that launches with every mix of optional arguments.
InitLaunch == InitWith("launch", 0)

SpecLaunch == InitLaunch /\ [][Serve]_vars

\* A session of a client that launches and runs the program.
InitRun == InitWith("run", 0)

SpecRun == InitRun /\ [][Serve]_vars

\* A session of a client that launches, has the stack and the scopes of a
\* frame listed, and runs the program; Stop is not called.
InitHandles == InitWith("handles", 0)

SpecHandles == InitHandles /\ [][Serve]_vars

\* A session of a client that sends the requests the server only refuses.
InitStubs == InitWith("stubs", 0)

SpecStubs == InitStubs /\ [][Serve]_vars

\* A session of a client that launches and lists the values of a frame.
InitValues ==
    /\ w = NewServer(0)
    /\ listener = "open" /\ stopChan = "open" /\ netConn = "none"
    /\ runPc = "accept" /\ runErr = "" /\ cur = NoRequest /\ seq = 0
    /\ stopPc = <<>>
    /\ fault = ""
    /\ reader = 0 /\ call = NoCall /\ owner = <<>>
    /\ \E l \in ValueLists :
          hist = [ client |-> "values", disconnected |-> FALSE, faulted |-> FALSE,
                   after |-> FALSE, late |-> FALSE, pre |-> w, o |-> NoOutcome,
                   frame |-> l ]         \* the values of the frame the program is stopped in

SpecValues == InitValues /\ [][Serve]_vars

----------------------------------------------------------------------------
(* What the claims speak of.                                               *)

\* The handler of cur has returned and the next read has not happened.
Handled == runPc = "read" /\ seq > 0

Entries(k) == {i \in 1..Len(w.trace) : w.trace[i].k = k}

\* The messages of the trace: responses and events.
Responses == {w.trace[i] : i \in Entries("response")}
Events == {w.trace[i] : i \in Entries("event")}
EngineCalls == {w.trace[i] : i \in Entries("engine")}

\* A call of Stop has returned: one that panicked has not.
StopReturned == \E i \in DOMAIN stopPc : stopPc[i] = "done"

----------------------------------------------------------------------------
(* C1: the disconnect channel is closed at most once in a session, however *)
(* client disconnect requests, a failed read, a failed accept and Stop     *)
(* interleave.                                                             *)
C1_DisconnectClosedAtMostOnce == w.dcCloses <= 1 /\ fault # "close of closed channel"

\* signalDisconnect ran a second time (after a disconnect request had closed
\* the channel, the read loop ended) and found the channel closed already.
C1_Witness ==
    /\ runPc = "done" /\ StopReturned
    /\ cur.command = "disconnect" /\ hist.late /\ hist.disconnected /\ ~hist.after
    /\ w.dcCloses = 1
    /\ \E i \in Entries("signal") : w.trace[i].name = "closed already"

(* C2: once Stop has returned, the serve flow is not left reading a        *)
(* connection that Stop did not close: it leaves the read loop and fires   *)
(* the disconnect signal.  Violated: Stop can run between the accept and   *)
(* the recording of the connection.                                        *)
C2_StopEndsServeFlow ==
    (StopReturned /\ runPc = "read") => netConn = "closed"

(* C3: a second Stop, after the first or beside it, causes no fault and no *)
(* second disconnect signal.  Violated: the second close(s.stopChan)       *)
(* panics.                                                                 *)
C3_StopIdempotent == fault # "close of closed channel" /\ w.dcCloses <= 1

(* C4: an engine that was created is detached at most once at any moment   *)
(* and exactly once when the session has ended (the serve flow has ended   *)
(* and Stop has returned).  Violated: a disconnect request and Stop both   *)
(* detach.                                                                 *)
C4_EngineDetachedOnce ==
    \A e \in 1..Len(w.detaches) :
        /\ Detaches(e) <= 1
        /\ (runPc = "done" /\ StopReturned /\ fault = "") => Detaches(e) = 1

----------------------------------------------------------------------------
\* The handles a registry resolves.
Issued(hs) == {h \in 0..(startHandle + Len(hs)) : found(hs, h)}

\* While cur was handled, a stopped event was sent: any, and one that an
\* execution command produced.
StoppedSent == \E e \in Events : e.name = "stopped"
StoppedByCommand == \E e \in Events : e.name = "stopped" /\ e.info # "entry"

\* No handle issued before cur was read resolves.
OldHandlesGone ==
    /\ \A h \in Issued(hist.pre.stackFrameHandles) : ~found(w.stackFrameHandles, h)
    /\ \A h \in Issued(hist.pre.variableHandles) : ~found(w.variableHandles, h)

\* Every handle issued before cur was read resolves, a frame handle to the
\* frame it was issued for.
OldHandlesLive ==
    /\ \A h \in Issued(hist.pre.stackFrameHandles) :
           /\ found(w.stackFrameHandles, h)
           /\ get(w.stackFrameHandles, h) = get(hist.pre.stackFrameHandles, h)
    /\ \A h \in Issued(hist.pre.variableHandles) : found(w.variableHandles, h)

(* C5 as claimed: after any stopped event, the one of configurationDone    *)
(* with stop-on-entry included, no handle issued before it resolves.       *)
C5_NoHandleOutlivesAnyStop == (Handled /\ StoppedSent) => OldHandlesGone

(* C5 as amended: the handles issued before a request resolve after it     *)
(* unless the request made an execution command send a stopped event, and  *)
(* then none of them resolves; the stopped event of configurationDone with *)
(* stop-on-entry leaves them resolving.                                    *)
C5_HandlesLiveUntilCommandStops ==
    Handled => /\ StoppedByCommand => OldHandlesGone
               /\ ~StoppedByCommand => OldHandlesLive

\* A step stopped the program after frame and value handles had been issued.
C5_Witness ==
    /\ Handled /\ StoppedByCommand
    /\ Issued(hist.pre.stackFrameHandles) # {}
    /\ Issued(hist.pre.variableHandles) # {}

\* The last entry of what the handler of cur did.
Last == w.trace[Len(w.trace)]

(* C6: a panic of a handler is recovered: the process does not die, the    *)
(* last message of the handler is an internal-error response with the      *)
(* sequence number of the request, the disconnect signal is not fired, the *)
(* connection stays open and the run goroutine is back at the read.        *)
C6_HandlerFaultAnswered ==
    /\ fault = "" /\ w.panic = ""
    /\ (runPc = "read" /\ Panicked(w)) =>
          /\ Last.k = "response" /\ ~Last.ok
          /\ Last.id = InternalError /\ Last.n = cur.seq
          /\ Entries("signal") = {}
          /\ w.dcCloses = hist.pre.dcCloses
          /\ netConn = "open"

\* A request handled to success after the handler of an earlier one panicked.
C6_Witness ==
    /\ Handled /\ hist.faulted /\ ~Panicked(w)
    /\ \E r \in Responses : r.ok /\ r.n = cur.seq /\ cur.seq > 1

(* C7 as claimed: every response carries the command and the sequence      *)
(* number of the request, every failure an error identifier and a message. *)
C7_ResponsesNameTheRequest ==
    Handled => \A r \in Responses :
        /\ r.name = cur.command /\ r.n = cur.seq
        /\ ~r.ok => (r.id # 0 /\ r.info # "")

(* C7 as amended: every response carries the success flag and the sequence *)
(* number of the request; every failure carries an error identifier and a  *)
(* message; every response but the internal-error ones carries the command *)
(* of the request, and the internal-error ones carry no command.           *)
C7_ResponsesCarrySeq ==
    Handled => \A r \in Responses :
        /\ r.ok \in BOOLEAN /\ r.n = cur.seq
        /\ r.ok => (r.id = 0 /\ r.name = cur.command)
        /\ ~r.ok => /\ r.id # 0 /\ r.info # ""
                    /\ \E i \in DOMAIN r.body : r.body[i].name = "format"
                    /\ r.id = InternalError => r.name = ""
                    /\ r.id # InternalError => r.name = cur.command

\* An internal-error response, for a panic of stackTrace without an engine.
C7_Witness ==
    /\ Handled /\ cur.command = "stackTrace" /\ Panicked(w)
    /\ \E r \in Responses : r.id = InternalError /\ r.name = "" /\ r.n = cur.seq

(* C8: a request read after a disconnect request was handled makes no      *)
(* call of the engine's Command, creates no engine, allocates no handle and *)
(* sends no stopped or terminated event.  Violated: the read loop goes on   *)
(* and the handlers do not know of the disconnect.                          *)
C8_DisconnectedIsTerminal ==
    (Handled /\ hist.after) =>
        /\ \A e \in EngineCalls : e.name \notin {"Command", "New"}
        /\ Len(w.stackFrameHandles) <= Len(hist.pre.stackFrameHandles)
        /\ Len(w.variableHandles) <= Len(hist.pre.variableHandles)
        /\ \A e \in Events : e.name \notin {"stopped", "terminated"}

\* The lines of the non-special breakpoints the engine holds for a file.
Installed(x, path) == {b.line : b \in {c \in x.bps : c.id >= 0 /\ c.file = path}}

\* The lines the engine accepted for cur: those its response reports verified.
Accepted ==
    UNION { {r.body[i].n : i \in {j \in DOMAIN r.body : r.body[j].name = "verified"}} : r \in Responses }

Requested == {cur.arguments.lines[i] : i \in DOMAIN cur.arguments.lines}

SetBreakpointsHandled ==
    Handled /\ cur.command = "setBreakpoints" /\ hist.pre.debugger # 0

(* C9 as claimed: after any setBreakpoints request the breakpoints of the  *)
(* file are those the request asked for and the engine accepted.           *)
C9_NoResidualBreakpoints ==
    SetBreakpointsHandled => Installed(w, cur.arguments.path) = Accepted

\* The non-special breakpoints the engine holds for a file.
OfFile(x, path) == {b \in x.bps : b.id >= 0 /\ b.file = path}

\* Those of them the clear loop had not reached when the n-th call of
\* ClearBreakpoint failed: the loop takes them in the order the engine lists them.
NotYetCleared(x, path, n) ==
    {b \in OfFile(x, path) : Cardinality({c \in OfFile(x, path) : c.id < b.id}) >= n - 1}

(* C9 as amended: a setBreakpoints request handled with an engine attached *)
(* leaves the breakpoints of other files and the special ones as they      *)
(* were.  Answered with success, it leaves as the non-special breakpoints  *)
(* of its file exactly the lines it asked for and the engine accepted.     *)
(* Answered with an error, it has created none of the requested            *)
(* breakpoints, and it has removed none at all unless a ClearBreakpoint    *)
(* failed: then the breakpoints of the file the loop had cleared before    *)
(* the failure are gone and the failing one and those after it stay.       *)
C9_ReplacesOrStopsAtFailedClear ==
    SetBreakpointsHandled =>
        LET path == cur.arguments.path
        IN  /\ Cardinality(Responses) = 1
            /\ w.bps \ OfFile(w, path) = hist.pre.bps \ OfFile(hist.pre, path)
            /\ (\E r \in Responses : r.ok) <=>
                  (path # "" /\ hist.o.clearFail \notin 1..Cardinality(OfFile(hist.pre, path)))
            /\ (\E r \in Responses : r.ok) =>
                  /\ Installed(w, path) = Accepted
                  /\ Accepted \subseteq Requested
            /\ (\E r \in Responses : ~r.ok) =>
                  /\ Accepted = {}
                  /\ \A r \in Responses : r.id = UnableToSetBreakpoints
                  /\ OfFile(w, path) =
                        IF path = "" THEN OfFile(hist.pre, path)
                        ELSE NotYetCleared(hist.pre, path, hist.o.clearFail)

\* A breakpoint of an earlier request, not asked for again, was removed and
\* another line installed.
C9_Witness ==
    /\ SetBreakpointsHandled /\ \E r \in Responses : r.ok
    /\ Installed(hist.pre, cur.arguments.path) \ Requested # {}
    /\ Accepted # {}

\* cur is a launch request whose program is absent, not a string or empty.
LaunchWithoutProgram ==
    /\ cur.command = "launch"
    /\ cur.arguments.program.t # "string" \/ cur.arguments.program.s = ""

(* C10: a launch request whose program is absent, not a string or empty is *)
(* answered with one failed-to-launch error response and nothing else but  *)
(* the log of the error: no build, no engine, no event, and the server is  *)
(* as it was (arguments, engine reference, binary to remove, process       *)
(* arguments, registries).                                                 *)
C10_LaunchWithoutProgramFails ==
    (Handled /\ LaunchWithoutProgram) =>
        /\ Len(w.trace) = 2
        /\ w.trace[1].k = "log"
        /\ Last.k = "response" /\ ~Last.ok /\ Last.id = FailedToLaunch
        /\ Last.name = "launch" /\ Last.n = cur.seq
        /\ [w EXCEPT !.trace = <<>>] = hist.pre

\* Such a launch on a server that holds an engine, asking for another
\* stop-on-entry than the one in force.
C10_Witness ==
    /\ Handled /\ LaunchWithoutProgram
    /\ hist.pre.debugger # 0
    /\ cur.arguments.stopOnEntry.t = "bool"
    /\ cur.arguments.stopOnEntry.b # hist.pre.args.stopOnEntry

----------------------------------------------------------------------------
\* cur is a launch request with an optional key present and mistyped.
MistypedOptional ==
    /\ cur.command = "launch"
    /\ \/ cur.arguments.buildFlags.t \notin {"absent", "string"}
       \/ cur.arguments.stopOnEntry.t \notin {"absent", "bool"}
       \/ cur.arguments.stackTraceDepth.t \notin {"absent", "number"}
       \/ cur.arguments.showGlobalVariables.t \notin {"absent", "bool"}
       \/ cur.arguments.args.t \notin {"absent", "array"}

(* C11: a launch request with a recognised optional key present and of the *)
(* wrong type is answered with a failed-to-launch error and creates no     *)
(* engine.  Violated: a mistyped stopOnEntry, stackTraceDepth or           *)
(* showGlobalVariables is ignored, and so is buildFlags in the mode exec.  *)
C11_MistypedOptionalRejected ==
    (Handled /\ MistypedOptional) =>
        /\ Last.k = "response" /\ ~Last.ok /\ Last.id = FailedToLaunch
        /\ \A e \in EngineCalls : e.name # "New"

\* The details of the errors that reject an argument of a launch request.
ArgumentErrors ==
    { "The program attribute is missing in debug configuration.",
      "'buildFlags' attribute in debug configuration is not a string.",
      "Unsupported 'mode' value in debug configuration.",
      "'args' attribute in debug configuration is not an array.",
      "value in 'args' attribute in debug configuration is not a string." }

\* The launch request cur was rejected for one of its arguments.
LaunchRejected ==
    /\ Handled /\ cur.command = "launch"
    /\ Last.k = "response" /\ Last.id = FailedToLaunch
    /\ \E i \in DOMAIN Last.body : Last.body[i].name = "format" /\ Last.body[i].value \in ArgumentErrors

(* C12: a launch request rejected for an argument leaves the stop-on-entry *)
(* flag, the stack depth, the show-globals flag, the engine reference and  *)
(* the binary to remove as they were.  Violated: the optional arguments    *)
(* and the built binary are recorded before 'args' is examined.            *)
C12_RejectedLaunchChangesNothing ==
    LaunchRejected =>
        /\ w.args = hist.pre.args
        /\ w.debugger = hist.pre.debugger
        /\ w.binaryToRemove = hist.pre.binaryToRemove

----------------------------------------------------------------------------
\* The messages sent to the client while cur was handled, in order.
IsMessage(e) == e.k \in {"response", "event"}
Messages == SelectSeq(w.trace, IsMessage)

\* The launch request cur was answered with success.
LaunchSucceeded ==
    /\ Handled /\ cur.command = "launch"
    /\ \E r \in Responses : r.ok

(* C13: a successful launch sends exactly two messages, the initialized    *)
(* event and then the success response to the launch request; it creates   *)
(* the engine and issues no execution command to it.                        *)
C13_LaunchSendsInitializedThenResponse ==
    LaunchSucceeded =>
        /\ Len(Messages) = 2
        /\ Messages[1].k = "event" /\ Messages[1].name = "initialized"
        /\ Messages[2].k = "response" /\ Messages[2].ok
        /\ Messages[2].name = "launch" /\ Messages[2].n = cur.seq
        /\ \A e \in EngineCalls : e.name = "New"
        /\ w.debugger # 0

\* A launch in the mode debug that built the program and succeeded.
C13_Witness ==
    /\ LaunchSucceeded
    /\ \E i \in Entries("build") : w.trace[i].name = "GoBuild"
    /\ \E e \in EngineCalls : e.name = "New" /\ e.ok

----------------------------------------------------------------------------
\* The positions in the trace of the success response to cur, of the
\* execution commands issued to the engine and of the events that report how
\* the program stopped.
ResponseAt == {i \in Entries("response") : w.trace[i].ok /\ w.trace[i].name = cur.command /\ w.trace[i].n = cur.seq}
CommandAt == {i \in Entries("engine") : w.trace[i].name = "Command"}
StopEventAt == {i \in Entries("event") : w.trace[i].name \in {"stopped", "terminated"}}

\* The position of the first message sent.
FirstMessageAt == CHOOSE i \in 1..Len(w.trace) : IsMessage(w.trace[i]) /\ \A j \in 1..(i - 1) : ~IsMessage(w.trace[j])

(* C14: configurationDone with stop-on-entry sends a stopped event with    *)
(* reason "entry" and all threads stopped, then the response, and issues   *)
(* no command to the engine; without stop-on-entry the response is the     *)
(* first message and only then is continue issued to the engine (if there  *)
(* is one), so that the stopped or terminated event follows the response.  *)
C14_ConfigurationDoneOrder ==
    (Handled /\ cur.command = "configurationDone") =>
        IF hist.pre.args.stopOnEntry
        THEN /\ Len(Messages) = 2
             /\ Messages[1].k = "event" /\ Messages[1].name = "stopped"
             /\ Messages[1].info = "entry" /\ Messages[1].ok
             /\ Messages[2].k = "response" /\ Messages[2].ok
             /\ Messages[2].name = "configurationDone" /\ Messages[2].n = cur.seq
             /\ CommandAt = {}
        ELSE /\ ResponseAt = {FirstMessageAt}
             /\ \A i \in CommandAt \cup StopEventAt : \A r \in ResponseAt : r < i
             /\ \A i \in CommandAt : w.trace[i].info = "continue"
             /\ Cardinality(CommandAt) = (IF hist.pre.debugger # 0 THEN 1 ELSE 0)
             /\ \A i \in StopEventAt : w.trace[i].info # "entry"

\* configurationDone without stop-on-entry ran the program until it stopped.
C14_Witness ==
    /\ Handled /\ cur.command = "configurationDone"
    /\ ~hist.pre.args.stopOnEntry /\ hist.pre.debugger # 0
    /\ \E i \in StopEventAt : w.trace[i].name = "stopped"

----------------------------------------------------------------------------
\* The engine command of each request that runs the program.
EngineCommand == [continue |-> "continue", next |-> "next", stepIn |-> "step", stepOut |-> "stepOut"]

(* C15: for continue, next, stepIn and stepOut the success response is the *)
(* first thing the handler does; with an engine attached the command of    *)
(* the request's kind is issued next, whatever thread the request names,   *)
(* and the stopped or terminated event of the command has been sent when   *)
(* the handler returns, before the next request is read.                   *)
C15_ResponseThenCommandThenEvent ==
    (Handled /\ cur.command \in DOMAIN EngineCommand) =>
        /\ ResponseAt = {1}
        /\ CommandAt = (IF hist.pre.debugger # 0 THEN {2} ELSE {})
        /\ \A i \in CommandAt : w.trace[i].info = EngineCommand[cur.command]
        /\ \A i \in StopEventAt : i > 2
        /\ (hist.pre.debugger # 0 /\ hist.o.cmd # "panic") => Cardinality(StopEventAt) = 1

\* A stepIn that names the second thread stopped the program.
C15_Witness ==
    /\ Handled /\ cur.command = "stepIn" /\ cur.arguments.threadId = 2
    /\ \E i \in CommandAt : w.trace[i].info = "step"
    /\ \E i \in StopEventAt : w.trace[i].name = "stopped"

\* An execution command was issued to the engine while cur was handled and
\* the engine answered it.
RanCommand == Handled /\ CommandAt # {} /\ hist.o.cmd # "panic"

\* The engine reported that the process has exited.
Exited == hist.o.cmd \in {"exitErr", "exitState"}

StoppedAt == {i \in StopEventAt : w.trace[i].name = "stopped"}
TerminatedAt == {i \in StopEventAt : w.trace[i].name = "terminated"}
OutputAt == {i \in Entries("event") : w.trace[i].name = "output"}

(* C16: an execution command the engine answers ends in one of two ways.   *)
(* If the engine reports the exit of the process, by the exit error or by  *)
(* the exited flag of the state, one terminated event is sent, no stopped  *)
(* event, and both registries are as they were.  Otherwise both registries *)
(* are cleared and one stopped event, with all threads stopped, is sent.   *)
(* A call of Command that panics is not an answer of the engine: it is the *)
(* fault the dispatch recovers from.                                       *)
C16_TerminatedOrStopped ==
    RanCommand =>
        IF Exited
        THEN /\ Cardinality(TerminatedAt) = 1 /\ StoppedAt = {}
             /\ w.stackFrameHandles = hist.pre.stackFrameHandles
             /\ w.variableHandles = hist.pre.variableHandles
        ELSE /\ Cardinality(StoppedAt) = 1 /\ TerminatedAt = {}
             /\ \A i \in StoppedAt : w.trace[i].ok
             /\ Issued(w.stackFrameHandles) = {} /\ Issued(w.variableHandles) = {}

\* A command issued while frame handles and value handles were registered
\* stopped the program: the handles of both registries are gone.
C16_Witness ==
    /\ RanCommand /\ hist.o.cmd = "stop"
    /\ Issued(hist.pre.stackFrameHandles) # {} /\ Issued(hist.pre.variableHandles) # {}
    /\ Issued(w.stackFrameHandles) = {} /\ Issued(w.variableHandles) = {}
    /\ Cardinality(StoppedAt) = 1

(* C17: the stopped event of a command that did not end in the exit of the *)
(* process has the reason "step" for next, step and stepOut without error, *)
(* "breakpoint" for any other command without error and "runtime error"    *)
(* when the engine returned an error; with an error, and only then, one    *)
(* output event follows the stopped event, also when the state query that  *)
(* follows the error fails.                                                *)
C17_StoppedReason ==
    (RanCommand /\ ~Exited) =>
        /\ StoppedAt # {}
        /\ \A i \in StoppedAt : \A c \in CommandAt :
            IF hist.o.cmd = "err"
            THEN /\ w.trace[i].info = "runtime error"
                 /\ OutputAt = {i + 1}
                 /\ w.trace[i].n = (IF hist.o.state = "ok" THEN 1 ELSE 0)
            ELSE /\ w.trace[i].info = (IF w.trace[c].info \in {"next", "step", "stepOut"}
                                       THEN "step" ELSE "breakpoint")
                 /\ OutputAt = {}

\* The engine returned an error and the state query failed as well.
C17_Witness ==
    /\ RanCommand /\ hist.o.cmd = "err" /\ hist.o.state = "err"
    /\ \E i \in StoppedAt : w.trace[i].info = "runtime error" /\ OutputAt = {i + 1}

----------------------------------------------------------------------------
(* C18: a threads request is answered with one message: without an engine  *)
(* an unable-to-display-threads error and no fault; when the engine says   *)
(* the process has exited, a success response with no thread; when it      *)
(* returns another error, an unable-to-display-threads error; when it      *)
(* returns no goroutine, a success response with the one placeholder       *)
(* thread; else a success response with one thread per goroutine, with     *)
(* the goroutine's id.                                                     *)
C18_ThreadsByCase ==
    (Handled /\ cur.command = "threads") =>
        /\ ~Panicked(w) /\ Len(Messages) = 1
        /\ Messages[1].k = "response" /\ Messages[1].n = cur.seq
        /\ IF hist.pre.debugger = 0
           THEN ~Messages[1].ok /\ Messages[1].id = UnableToDisplayThreads /\ EngineCalls = {}
           ELSE IF hist.o.gs = -2
           THEN Messages[1].ok /\ Messages[1].body = <<>>
           ELSE IF hist.o.gs = -1
           THEN ~Messages[1].ok /\ Messages[1].id = UnableToDisplayThreads
           ELSE IF hist.o.gs = 0
           THEN /\ Messages[1].ok /\ Len(Messages[1].body) = 1
                /\ Messages[1].body[1].name = "Dummy" /\ Messages[1].body[1].n = 1
           ELSE /\ Messages[1].ok /\ Len(Messages[1].body) = hist.o.gs
                /\ \A i \in 1..hist.o.gs : Messages[1].body[i].n = i

\* The engine is attached and has no goroutine to list.
C18_Witness ==
    /\ Handled /\ cur.command = "threads"
    /\ hist.pre.debugger # 0 /\ hist.o.gs = 0
    /\ Messages[1].ok /\ Len(Messages[1].body) = 1

\* The capability the initialize response sets to false, for each request
\* that has one.
CapabilityOf ==
    [ terminate |-> "supportsTerminateRequest", restart |-> "supportsRestartRequest",
      setFunctionBreakpoints |-> "supportsFunctionBreakpoints",
      stepBack |-> "supportsStepBack", reverseContinue |-> "supportsStepBack",
      setVariable |-> "supportsSetVariable", setExpression |-> "supportsSetExpression",
      loadedSources |-> "supportsLoadedSourcesRequest", readMemory |-> "supportsReadMemoryRequest",
      disassemble |-> "supportsDisassembleRequest", cancel |-> "supportsCancelRequest" ]

Mandatory == {"attach", "pause", "evaluate"}

\* cur was refused with the given error identifier and nothing else was done.
RefusedWith(id) ==
    /\ Len(Messages) = 1 /\ EngineCalls = {}
    /\ Last.k = "response" /\ ~Last.ok /\ Last.id = id
    /\ Last.name = cur.command /\ Last.n = cur.seq

(* C19 as claimed: a request whose capability the initialize response sets *)
(* to false is refused with the identifier unsupported-command, and the    *)
(* identifier not-yet-implemented is used for attach, pause and evaluate   *)
(* only.                                                                   *)
C19_UnadvertisedAreUnsupported ==
    Handled =>
        /\ cur.command \in DOMAIN CapabilityOf => RefusedWith(UnsupportedCommand)
        /\ (\E r \in Responses : r.id = NotYetImplemented) => cur.command \in Mandatory

(* C19 as amended: the initialize response sets each of these capabilities *)
(* to false, and a request that has one is refused with the identifier     *)
(* not-yet-implemented, as attach, pause and evaluate are; the identifier  *)
(* unsupported-command is used for the requests of which the initialize    *)
(* response says nothing.                                                  *)
C19_UnadvertisedAreNotYetImplemented ==
    Handled =>
        /\ cur.command \in (DOMAIN CapabilityOf) \cup Mandatory => RefusedWith(NotYetImplemented)
        /\ cur.command \in UnsupportedCommands => RefusedWith(UnsupportedCommand)
        /\ cur.command = "initialize" =>
              /\ Last.k = "response" /\ Last.ok
              /\ \A c \in DOMAIN CapabilityOf :
                    \E i \in DOMAIN Last.body :
                        Last.body[i].name = CapabilityOf[c] /\ Last.body[i].value = "false"
        /\ \A r \in Responses :
              /\ r.id = NotYetImplemented => cur.command \in NotYetImplementedCommands
              /\ r.id = UnsupportedCommand => cur.command \in UnsupportedCommands

\* A terminate request refused as not yet implemented.
C19_Witness ==
    /\ Handled /\ cur.command = "terminate" /\ cur.seq > 1
    /\ RefusedWith(NotYetImplemented)

----------------------------------------------------------------------------
\* What the handler of cur did, the diagnostics left out.
IsStep(e) == e.k # "log"
Steps == SelectSeq(w.trace, IsStep)

\* Where in Steps the disconnect signal is.
SignalStep == IF hist.pre.debugger # 0 THEN 4 ELSE 2

(* C20: a disconnect request first sends the success response; then, only  *)
(* with an engine attached, it halts the engine and then detaches it, with *)
(* kill exactly when the server did not attach to a process, whether the   *)
(* halt or the detach fails or not; then it signals the disconnect, after  *)
(* which the disconnect channel is closed, and the built binary, if any,   *)
(* is removed.  Only a fault of the engine during the halt cuts it short.  *)
C20_DisconnectOrder ==
    (Handled /\ cur.command = "disconnect") =>
        /\ Steps[1].k = "response" /\ Steps[1].ok
        /\ Steps[1].name = "disconnect" /\ Steps[1].n = cur.seq
        /\ hist.pre.debugger # 0 =>
              /\ Steps[2].k = "engine" /\ Steps[2].name = "Command" /\ Steps[2].info = "halt"
              /\ Steps[2].ok = (hist.o.halt = "ok")
        /\ hist.pre.debugger = 0 => EngineCalls = {}
        /\ Panicked(w) <=> (hist.pre.debugger # 0 /\ hist.o.halt = "panic")
        /\ ~Panicked(w) =>
              /\ Len(Steps) >= SignalStep
              /\ hist.pre.debugger # 0 =>
                    /\ Steps[3].k = "engine" /\ Steps[3].name = "Detach"
                    /\ Steps[3].n = hist.pre.debugger
                    /\ Steps[3].info = (IF w.attachPid = 0 THEN "kill" ELSE "nokill")
              /\ Steps[SignalStep].k = "signal"
              /\ Steps[SignalStep].name = (IF hist.pre.disconnectChan THEN "close" ELSE "closed already")
              /\ ~w.disconnectChan /\ w.dcCloses = 1
              /\ Len(Steps) = SignalStep + (IF hist.pre.binaryToRemove # "" THEN 1 ELSE 0)
              /\ Len(Steps) > SignalStep => Steps[Len(Steps)].name = "Remove"

\* The halt and the detach both failed, on a server that attached to a process.
C20_Witness ==
    /\ Handled /\ cur.command = "disconnect"
    /\ hist.pre.debugger # 0 /\ w.attachPid # 0
    /\ hist.o.halt = "err" /\ hist.o.detach = "err"
    /\ Steps[4].k = "signal" /\ Steps[4].name = "close"

----------------------------------------------------------------------------
(* C21: the engine reference is set at most once in a session: it is nil   *)
(* until a launch succeeds, at most one engine is ever created, and a      *)
(* launch request handled after one has succeeded leaves the reference as  *)
(* it was.  Violated: onLaunchRequest does not look at s.debugger, so a    *)
(* later launch creates a second engine and assigns it, and a later launch *)
(* the engine refuses assigns nil.                                         *)
C21_EngineSetAtMostOnce ==
    /\ Len(w.detaches) <= 1
    /\ w.debugger # 0 => Len(w.detaches) >= 1
    /\ (Handled /\ hist.pre.debugger # 0) => w.debugger = hist.pre.debugger

----------------------------------------------------------------------------
\* The value a variables request asks for, and the list it was answered with.
\* (Listed is the value as it was when the request was read, ListedAt the
\* pointer the registry holds for it).
ListedAt == get(hist.pre.variableHandles, cur.arguments.variablesReference)
Listed == deref(hist.pre.variableHandles, ListedAt)
VariablesListed ==
    /\ Handled /\ cur.command = "variables"
    /\ found(hist.pre.variableHandles, cur.arguments.variablesReference)
Listing == (CHOOSE r \in Responses : r.ok).body

\* convertVariable gives the value p points at a handle.
Expandable(p) == convertVariable(hist.pre, p).ref # 0

\* Pair i of a map (from 0): its key and its value, whether both get a
\* handle, and the place of its first entry in the listing.
KeyOf(p, i) == childOf(p, 2 * i + 1)
ValOf(p, i) == childOf(p, 2 * i + 2)
Both(p, i) == Expandable(KeyOf(p, i)) /\ Expandable(ValOf(p, i))
PairAt(p, i) == i + 1 + Cardinality({j \in 0..(i - 1) : Both(p, j)})

\* The handle h resolves to the value p points at: the registry holds p.
ResolvesTo(h, p) ==
    /\ h # 0 /\ found(w.variableHandles, h)
    /\ get(w.variableHandles, h) = p

(* C22: the listing of a map of N pairs has, for pair i, the two entries   *)
(* "[key i]" and "[val i]" with the handles of the key and of the value    *)
(* when both get a handle, and else one entry whose handle is the one of   *)
(* the key or of the value that is not zero, or zero; it has N entries     *)
(* plus one for every pair with two handles, and N entries with handle     *)
(* zero when every key and value is a scalar.                              *)
C22_MapListing ==
    (VariablesListed /\ Listed.kind = "map") =>
        LET N == Len(Listed.children) \div 2
        IN  /\ \E r \in Responses : r.ok
            /\ Len(Listing) = N + Cardinality({i \in 0..(N - 1) : Both(ListedAt, i)})
            /\ \A i \in 0..(N - 1) :
                  IF Both(ListedAt, i)
                  THEN /\ Listing[PairAt(ListedAt, i)].name = keyName(i)
                       /\ Listing[PairAt(ListedAt, i) + 1].name = valName(i)
                       /\ ResolvesTo(Listing[PairAt(ListedAt, i)].n, KeyOf(ListedAt, i))
                       /\ ResolvesTo(Listing[PairAt(ListedAt, i) + 1].n, ValOf(ListedAt, i))
                  ELSE IF Expandable(KeyOf(ListedAt, i))
                  THEN ResolvesTo(Listing[PairAt(ListedAt, i)].n, KeyOf(ListedAt, i))
                  ELSE IF Expandable(ValOf(ListedAt, i))
                  THEN ResolvesTo(Listing[PairAt(ListedAt, i)].n, ValOf(ListedAt, i))
                  ELSE Listing[PairAt(ListedAt, i)].n = 0
            /\ (\A i \in 0..(N - 1) : ~Expandable(KeyOf(ListedAt, i)) /\ ~Expandable(ValOf(ListedAt, i)))
                  => Len(Listing) = N /\ \A j \in 1..N : Listing[j].n = 0

\* A map of two pairs was listed: one pair got two entries, the other one
\* entry with the handle of its value.
C22_Witness ==
    /\ VariablesListed /\ Listed.kind = "map" /\ Len(Listed.children) = 4
    /\ Len(Listing) = 3
    /\ Both(ListedAt, 0) /\ ~Expandable(KeyOf(ListedAt, 1)) /\ Expandable(ValOf(ListedAt, 1))
    /\ Listing[3].n # 0

----------------------------------------------------------------------------
\* The values a listing converts: the children of the value listed, when it
\* is not a map (entry i of the listing is then the conversion of child i).
PlainListed == VariablesListed /\ Listed.kind # "map" /\ \E r \in Responses : r.ok

\* The children a value has when its conversion returns: a complex number
\* has been given its two parts.
ChildrenAfter(v) ==
    IF ~v.unreadable /\ v.kind \in {"complex64", "complex128"} THEN 2 ELSE Len(v.children)

\* The nil forms of a slice, a map, a channel, a pointer and an interface.
NilValued(v) ==
    \/ v.kind \in {"slice", "map"} /\ v.base = 0
    \/ v.kind = "chan" /\ v.children = <<>>
    \/ v.kind = "ptr" /\ (~v.typed \/ v.children = <<>> \/ v.children[1].addr = 0)
    \/ v.kind = "interface"
          /\ (v.addr = 0 \/ v.children = <<>>
                \/ (v.children[1].kind = "invalid" /\ v.children[1].addr = 0))

\* The display strings that contain "nil".
NilStrings == {"nil", "nil <T>", "unsafe.Pointer(nil)"}

\* The handles of a listing that are not zero.
Allocated == {j \in 1..Len(Listing) : Listing[j].n # 0}

(* C23: a conversion returns a handle other than zero only for a value     *)
(* that has a child when the conversion returns; the conversion of an      *)
(* unreadable value, of a raw pointer, of a string and of a nil slice,     *)
(* map, channel, pointer or interface returns zero and allocates nothing,  *)
(* and the display string of the nil forms contains "nil".                 *)
C23_HandleOnlyWithChildren ==
    PlainListed =>
        /\ Len(Listing) = Len(Listed.children)
        /\ Len(w.variableHandles) = Len(hist.pre.variableHandles) + Cardinality(Allocated)
        /\ \A j \in 1..Len(Listing) :
              LET c == Listed.children[j]
              IN  /\ Listing[j].n # 0 => ChildrenAfter(c) > 0
                  /\ (c.unreadable \/ c.kind \in {"unsafeptr", "string"} \/ NilValued(c))
                        => Listing[j].n = 0
                  /\ (~c.unreadable /\ NilValued(c)) => Listing[j].value \in NilStrings

\* The one value of a scope was a nil form: it was listed with handle zero
\* and nothing was allocated.
C23_Witness ==
    /\ PlainListed /\ Len(Listed.children) = 1 /\ Len(Listing) = 1
    /\ NilValued(Listed.children[1]) /\ Listed.children[1].kind = "slice"
    /\ Listing[1].n = 0 /\ Listing[1].value = "nil <T>"
    /\ w.variableHandles = hist.pre.variableHandles

----------------------------------------------------------------------------
\* A readable pointer with a type and a child that is not nil.
NonNilPointer(v) ==
    /\ ~v.unreadable /\ v.kind = "ptr" /\ v.typed
    /\ Len(v.children) >= 1 /\ v.children[1].addr # 0

\* The same, pointing at a value of a valid kind.
ValidPointer(v) == NonNilPointer(v) /\ v.children[1].kind # "invalid"

\* Entry j of the listing has a handle of its own, issued by this request
\* and resolving to child j.
OwnHandle(j) ==
    /\ ~found(hist.pre.variableHandles, Listing[j].n)
    /\ ResolvesTo(Listing[j].n, childOf(ListedAt, j))
    /\ \A k \in 1..Len(Listing) : (k # j /\ Listing[k].n # 0) => Listing[k].n # Listing[j].n

\* The request allocated one handle per entry with a handle, and the handles
\* issued before it resolve as they did.
OneHandleEach ==
    /\ Len(w.variableHandles) = Len(hist.pre.variableHandles) + Cardinality(Allocated)
    /\ \A h \in Issued(hist.pre.variableHandles) :
          /\ found(w.variableHandles, h)
          /\ get(w.variableHandles, h).root = get(hist.pre.variableHandles, h).root
          /\ get(w.variableHandles, h).path = get(hist.pre.variableHandles, h).path

(* C24 as claimed: the conversion of every typed pointer that is not nil   *)
(* and has a child allocates one new handle and returns it, distinct from  *)
(* the handle of every other value converted since the last reset.         *)
C24_NonNilPointerGetsHandle ==
    PlainListed =>
        /\ Len(Listing) = Len(Listed.children)
        /\ OneHandleEach
        /\ \A j \in 1..Len(Listing) : NonNilPointer(Listed.children[j]) => OwnHandle(j)

(* C24 as amended: the conversion of a typed pointer that is not nil and   *)
(* points at a value of a valid kind allocates exactly one new handle and  *)
(* returns it; the handles of two values converted since the last reset    *)
(* differ and each resolves to its own value, also when the two values are *)
(* equal.  A pointer at a value of the invalid kind is displayed as "void" *)
(* and gets handle zero.                                                   *)
C24_ValidPointerGetsHandle ==
    PlainListed =>
        /\ Len(Listing) = Len(Listed.children)
        /\ OneHandleEach
        /\ \A j \in 1..Len(Listing) :
              /\ ValidPointer(Listed.children[j]) => OwnHandle(j)
              /\ (NonNilPointer(Listed.children[j]) /\ ~ValidPointer(Listed.children[j]))
                    => Listing[j].n = 0 /\ Listing[j].value = "void"

\* Two equal pointers were listed: each got a handle of its own.
C24_Witness ==
    /\ PlainListed /\ Len(Listing) = 2
    /\ Listed.children[1] = Listed.children[2] /\ ValidPointer(Listed.children[1])
    /\ Listing[1].n # 0 /\ Listing[2].n # 0 /\ Listing[1].n # Listing[2].n
    /\ Len(w.variableHandles) = Len(hist.pre.variableHandles) + 2

----------------------------------------------------------------------------
\* An error diagnostic is among what the last step of the server did.
Logged(x) == \E i \in 1..Len(x.trace) : x.trace[i].k = "log"

(* C25: when the serve flow leaves the read loop after a failed read, it   *)
(* logs no error diagnostic if the read failed on the connection Stop had  *)
(* closed or with EOF; it logs one only if the error is another one and    *)
(* the stop signal is still open.  A read never fails on a connection Stop *)
(* closed while the stop signal is open, however the steps of Stop fall.   *)
C25_NoDiagnosticForStopOrEOF ==
    [][ /\ (runPc' = "readErr" /\ (runErr' = "closed" \/ netConn' = "closed")) =>
              stopChan' = "closed"
        /\ (runPc = "readErr" /\ runPc' = "done") =>
              /\ (runErr \in {"closed", "EOF"} \/ netConn = "closed") => ~Logged(w')
              /\ Logged(w') => (runErr = "other" /\ stopChan = "open")
              /\ (runErr = "other" /\ stopChan = "open") => Logged(w') ]_vars

\* The read failed on the connection Stop had closed, and the serve flow
\* ended without a diagnostic.
C25_Witness ==
    /\ runPc = "done" /\ runErr = "closed" /\ netConn = "closed"
    /\ hist.late /\ seq > 1
    /\ ~Logged(w)
    /\ \E i \in Entries("signal") : TRUE

----------------------------------------------------------------------------
\* A launch request with a program has been handled.
LaunchWithProgram ==
    /\ Handled /\ cur.command = "launch"
    /\ cur.arguments.program.t = "string" /\ cur.arguments.program.s # ""

\* The mode of the request: "debug" when the key is absent or empty.
ModeAsked ==
    IF cur.arguments.mode.t = "absent" THEN "debug"
    ELSE IF cur.arguments.mode.t # "string" THEN "(not a string)"
    ELSE IF cur.arguments.mode.s = "" THEN "debug"
    ELSE cur.arguments.mode.s

\* The output path resolves and the build flags, if given, are a string.
BuildArgumentsValid ==
    hist.o.abs = "ok" /\ cur.arguments.buildFlags.t \in {"absent", "string"}

\* The calls of the build service and the creations of an engine in the trace.
BuildsAt(name) == {i \in Entries("build") : w.trace[i].name = name}
EnginesAt == {i \in Entries("engine") : w.trace[i].name = "New"}

\* The request was answered with one failed-to-launch error and nothing else.
LaunchFailedWith(details) ==
    /\ Len(Messages) = 1
    /\ Messages[1].k = "response" /\ ~Messages[1].ok /\ Messages[1].id = FailedToLaunch
    /\ Messages[1].body = <<Item("format", details, 0)>>

(* C26: the build of a launch is decided by the mode.  "debug", also when  *)
(* the mode is absent or empty, calls the plain build once and "test" the  *)
(* test build once (given an output path that resolves and build flags     *)
(* that are a string); "exec" calls no build; any other mode is answered   *)
(* with a failed-to-launch error, without build and without engine.  When  *)
(* the build fails the answer is a failed-to-launch error with the text of *)
(* the build error, no engine is created and no initialized event is sent. *)
C26_BuildByMode ==
    LaunchWithProgram =>
        /\ (ModeAsked = "debug" /\ BuildArgumentsValid) =>
              Cardinality(BuildsAt("GoBuild")) = 1 /\ BuildsAt("GoTestBuild") = {}
        /\ (ModeAsked = "test" /\ BuildArgumentsValid) =>
              Cardinality(BuildsAt("GoTestBuild")) = 1 /\ BuildsAt("GoBuild") = {}
        /\ ModeAsked = "exec" => BuildsAt("GoBuild") \cup BuildsAt("GoTestBuild") = {}
        /\ ModeAsked \notin {"debug", "test", "exec"} =>
              /\ BuildsAt("GoBuild") \cup BuildsAt("GoTestBuild") = {}
              /\ EnginesAt = {} /\ w.debugger = hist.pre.debugger
              /\ LaunchFailedWith("Unsupported 'mode' value in debug configuration.")
        /\ (ModeAsked \in {"debug", "test"} /\ BuildArgumentsValid /\ hist.o.build = "err") =>
              /\ LaunchFailedWith("Build error")
              /\ EnginesAt = {} /\ w.debugger = hist.pre.debugger
              /\ w.binaryToRemove = hist.pre.binaryToRemove

\* A launch in mode "test" called the test build, which failed.
C26_Witness ==
    /\ LaunchWithProgram /\ ModeAsked = "test" /\ hist.o.build = "err"
    /\ \E i \in BuildsAt("GoTestBuild") : ~w.trace[i].ok
    /\ LaunchFailedWith("Build error")

----------------------------------------------------------------------------
\* No response and no event is among what the last step of the server did.
NothingSent(x) == \A i \in 1..Len(x.trace) : ~IsMessage(x.trace[i])

SignalsOf(x, name) == {i \in 1..Len(x.trace) : x.trace[i].k = "signal" /\ x.trace[i].name = name}

(* C27: after a failed read, whatever the error, the serve flow reads and  *)
(* handles nothing more and sends nothing to the client; when it has ended *)
(* the disconnect channel is closed, by the close of this step unless a    *)
(* disconnect request had closed it before.                                *)
C27_ReadFailureEndsSession ==
    [][ /\ runPc = "readErr" => runPc' \in {"readErr", "done"}
        /\ runPc = "done" => (runPc' = "done" /\ seq' = seq /\ cur' = cur)
        /\ (runPc = "readErr" /\ runPc' = "done") =>
              /\ NothingSent(w')
              /\ w'.dcCloses = 1 /\ ~w'.disconnectChan /\ fault' = ""
              /\ SignalsOf(w', "close") # {} <=> w.dcCloses = 0
              /\ SignalsOf(w', "closed already") # {} <=> w.dcCloses = 1
        /\ (runPc' = "done" /\ netConn' # "none") =>
              NothingSent(w') /\ w'.dcCloses = 1 /\ ~w'.disconnectChan ]_vars

\* The client closed the connection after its disconnect request had been
\* handled: the read loop ended and found the channel closed already.
C27_Witness ==
    /\ runPc = "done" /\ runErr = "EOF" /\ netConn = "open"
    /\ hist.disconnected
    /\ NothingSent(w) /\ w.dcCloses = 1
    /\ SignalsOf(w, "closed already") # {}

----------------------------------------------------------------------------
\* The breakpoints of the engine a setBreakpoints request for the path has
\* no business with: those of other files and the special ones.
Foreign(x, path) == {b \in x.bps : b.file # path \/ b.id < 0}

(* C28: a setBreakpoints request for a path leaves every breakpoint of     *)
(* another file and every special breakpoint (id < 0) as it was, whether   *)
(* it succeeds or fails; with an empty path it is answered with an         *)
(* unable-to-set-breakpoints error, calls the engine not at all and leaves *)
(* every breakpoint as it was.                                             *)
C28_OtherBreakpointsUntouched ==
    (Handled /\ cur.command = "setBreakpoints") =>
        /\ Foreign(w, cur.arguments.path) = Foreign(hist.pre, cur.arguments.path)
        /\ cur.arguments.path = "" =>
              /\ w.bps = hist.pre.bps
              /\ EngineCalls = {}
              /\ Len(Messages) = 1
              /\ ~Messages[1].ok /\ Messages[1].id = UnableToSetBreakpoints
              /\ Messages[1].n = cur.seq

\* Breakpoints were set in the file of the special breakpoint while another
\* file had one: the special one and the other file's are still there.
C28_Witness ==
    /\ Handled /\ cur.command = "setBreakpoints" /\ cur.arguments.path = "panic.go"
    /\ \E r \in Responses : r.ok
    /\ \E b \in hist.pre.bps : b.file = "a.go" /\ b \in w.bps
    /\ \E b \in w.bps : b.file = "panic.go" /\ b.id < 0
    /\ \E b \in w.bps : b.file = "panic.go" /\ b.id > 0

----------------------------------------------------------------------------
ExecutionCommands == {"configurationDone", "continue", "next", "stepIn", "stepOut"}

\* s.debugger was nil when cur was read: no launch had succeeded, or the
\* last launch had failed to create the engine.
NoEngineAttached == hist.pre.debugger = 0

(* C29: an execution request handled while no engine is attached is        *)
(* answered with its success response and nothing else, but the stopped    *)
(* event with reason "entry" that configurationDone sends first when       *)
(* stop-on-entry is set; the engine is not called and both registries are  *)
(* left as they were.                                                      *)
C29_NoEngineNoCommand ==
    (Handled /\ cur.command \in ExecutionCommands /\ NoEngineAttached) =>
        /\ Responses = {newResponse(cur)}
        /\ Events = IF cur.command = "configurationDone" /\ hist.pre.args.stopOnEntry
                    THEN {newEvent("stopped", "entry", 1, TRUE)}
                    ELSE {}
        /\ Len(Messages) = 1 + Cardinality(Events)
        /\ Messages[Len(Messages)] = newResponse(cur)
        /\ EngineCalls = {} /\ ~Panicked(w)
        /\ w.stackFrameHandles = hist.pre.stackFrameHandles
        /\ w.variableHandles = hist.pre.variableHandles
        /\ w.debugger = 0

\* configurationDone while both registries hold handles, issued under the
\* engine of a launch that succeeded, after a launch that set stop-on-entry
\* and failed to create the engine.
C29_Witness ==
    /\ Handled /\ cur.command = "configurationDone" /\ NoEngineAttached
    /\ hist.pre.detaches # <<>> /\ hist.pre.args.stopOnEntry
    /\ Issued(hist.pre.stackFrameHandles) # {} /\ Issued(hist.pre.variableHandles) # {}
    /\ Issued(w.stackFrameHandles) = Issued(hist.pre.stackFrameHandles)
    /\ Issued(w.variableHandles) = Issued(hist.pre.variableHandles)
    /\ Len(Messages) = 2 /\ Messages[1].name = "stopped" /\ Messages[2] = newResponse(cur)

----------------------------------------------------------------------------
\* The responses to cur in what its handler did.
ResponsesToCur == {i \in Entries("response") : w.trace[i].n = cur.seq}

(* C30: every request handled is answered with exactly one response that  *)
(* carries its sequence number.  Violated: continue, next, stepIn, stepOut *)
(* and configurationDone send their success response before they run the   *)
(* engine command, and when that panics the recovery sends an              *)
(* internal-error response for the same request.                           *)
C30_ExactlyOneResponse == Handled => Cardinality(ResponsesToCur) = 1

----------------------------------------------------------------------------
\* The session has ended: the serve flow has ended and Stop has returned.
SessionEnded == runPc = "done" /\ StopReturned /\ fault = ""

(* C31: when the session has ended, every engine a launch created has been *)
(* detached, however Stop and the handling of the launch interleave.       *)
(* Violated: Stop tests s.debugger before the launch being handled has     *)
(* assigned it, and nothing detaches the engine afterwards.                *)
C31_NoEngineLeftAttached ==
    SessionEnded => \A e \in 1..Len(w.detaches) : Detaches(e) >= 1

----------------------------------------------------------------------------
\* The accept failed on the listener Stop had closed, and the serve flow has
\* ended.
AcceptFailedByStop == runPc = "done" /\ netConn = "none" /\ runErr = "closed"

(* C32: when the accept fails because Stop closed the listener, the serve  *)
(* flow logs no error diagnostic and fires the disconnect signal, however  *)
(* the steps of Stop and the handling of the failure interleave.           *)
(* Violated: Stop closes the listener before the stop signal, and the      *)
(* serve flow can examine the stop signal in between.                      *)
C32_NoDiagnosticForStoppedAccept ==
    AcceptFailedByStop => (~Logged(w) /\ w.dcCloses = 1 /\ ~w.disconnectChan)

====
